---- MODULE Spec2Model ----
(***************************************************************************)
(* A model of ywsd, the two-stage call-routing engine for Yate:            *)
(*   - the busy cache (ywsd/busy_cache.py),                                *)
(*   - tree discovery and routing generation (ywsd/routing_tree.py),       *)
(*   - the Stage-1 task, the routing cache and the reply encoding          *)
(*     (ywsd/stage1.py, ywsd/routing_cache.py, ywsd/yate.py,               *)
(*     ywsd/engine.py),                                                    *)
(*   - the Stage-2 task and its tables (ywsd/stage2.py, ywsd/objects.py),  *)
(*   - the retry of a routing job after a database error (ywsd/util.py),   *)
(*   - the shutdown of the engine: the signal and the end of main          *)
(*     (ywsd/engine.py).                                                   *)
(*                                                                         *)
(* Strings are sequences of tokens (a token is a TLA+ string), so that     *)
(* concatenation, prefix tests and formatting are computed and not assumed.*)
(* A parameter map (a Python dict) is a function whose domain is the set   *)
(* of its keys; dict.get(k) of a missing key is the value None.            *)
(***************************************************************************)
EXTENDS Integers, Sequences, FiniteSets, TLC

VARIABLES
    busy_impl,      \* the configured BUSY_CACHE_IMPLEMENTATION
    busy_cache,     \* PythonDictBusyCache._cache / the redis hash "busy_cache"
    cdr_tasks,      \* the _handle_msg_task tasks created and not yet run
    cdr_count,      \* number of call.cdr messages received so far
    cdr_answers,    \* per call.cdr message: how often it was answered, and how
    cdr_log,        \* per extension: events applied so far (bookkeeping of the run)
    cdr_sequential, \* the counters had every event been applied when it arrived
    last_query,     \* the last is_busy / busy_status call and what it returned
    store,          \* the store: Extension and ForkRank tables, ringback files
    stage2_db,      \* the Stage-2 database: users, registrations, active calls
    discovery,      \* a RoutingTree after discover_tree: <<>> or <<record>>
    generation,     \* what calculate_routing made of it: <<>> or <<record>>
    cache_impl,     \* the configured CACHE_IMPLEMENTATION
    routing_cache,  \* PythonDictRoutingCache._cache / the keys of the redis cache
    route_tasks,    \* the tasks created for call.route messages, in order
    route_answers,  \* the answers given to call.route messages, in order
    route_count,    \* number of call.route messages received so far
    cpu,            \* the task that runs on without suspending, 0 for none
    shutdown,       \* the shutdown intent: _shutdown_future has its result
    routing_db_engine \* the engine of the routing database: "open" inside its
                    \* context in main, "closed" once main called close(), "None"

busy_vars == <<busy_impl, busy_cache, cdr_tasks, cdr_count, cdr_answers,
               cdr_log, cdr_sequential, last_query>>
gen_vars == <<discovery, generation>>
route_vars == <<cache_impl, routing_cache, route_tasks, route_answers, route_count, cpu>>
vars == <<busy_vars, store, stage2_db, gen_vars, route_vars, shutdown, routing_db_engine>>

-----------------------------------------------------------------------------
(* Strings and dicts                                                       *)

\* Python's None, as a value of its own
None == <<"<None>">>

\* dict.get(key) / dict.get(key, default)
Get(d, k) == IF k \in DOMAIN d THEN d[k] ELSE None
GetDefault(d, k, default) == IF k \in DOMAIN d THEN d[k] ELSE default

\* dict.update(other), d[k] = v
Update(d, other) ==
    [k \in DOMAIN d \cup DOMAIN other |-> IF k \in DOMAIN other THEN other[k] ELSE d[k]]
SetItem(d, k, v) == [x \in DOMAIN d \cup {k} |-> IF x = k THEN v ELSE d[x]]

EmptyDict == <<>>

\* str.startswith
StartsWith(s, prefix) ==
    /\ Len(s) >= Len(prefix)
    /\ SubSeq(s, 1, Len(prefix)) = prefix

\* str(int), for the ids and delays the code formats into strings
Digits == <<"0", "1", "2", "3", "4", "5", "6", "7", "8", "9">>
RECURSIVE StrNat(_)
StrNat(n) == IF n < 10 THEN <<Digits[n + 1]>>
             ELSE StrNat(n \div 10) \o <<Digits[(n % 10) + 1]>>
Str(n) == IF n < 0 THEN <<"-">> \o StrNat(0 - n) ELSE StrNat(n)

\* str.isdigit()
IsDigit(s) == Len(s) > 0 /\ \A i \in DOMAIN s : \E d \in DOMAIN Digits : s[i] = Digits[d]

Range(s) == {s[i] : i \in DOMAIN s}

\* "-".join(map(str, path))
RECURSIVE JoinPath(_)
JoinPath(path) ==
    IF path = <<>> THEN <<>>
    ELSE IF Len(path) = 1 THEN Str(path[1])
    ELSE Str(path[1]) \o <<"-">> \o JoinPath(Tail(path))

-----------------------------------------------------------------------------
(* Bounds of the model                                                     *)

\* call.cdr messages received in one run
MaxCdr == 4

-----------------------------------------------------------------------------
(* The busy cache: ywsd/busy_cache.py                                      *)

BusyImpls == {"PythonDictBusyCache", "RedisBusyCache"}

\* extension numbers appearing in the `external` parameter of call.cdr
N2042 == <<"2", "0", "4", "2">>
N2024 == <<"2", "0", "2", "4">>
CdrExtensions == {N2042, N2024}

S_initialize == <<"initialize">>
S_finalize == <<"finalize">>
S_update == <<"update">>

\* the parameter maps of the call.cdr messages the switch sends
CdrMessages ==
    {EmptyDict} \cup
    {[operation |-> op] : op \in {S_initialize}} \cup
    {[external |-> e] : e \in {N2042}} \cup
    {[operation |-> op, external |-> e] :
        op \in {S_initialize, S_finalize}, e \in CdrExtensions} \cup
    {[operation |-> S_update, external |-> N2042]}

\* defaultdict(lambda: 0): reading a missing key inserts it with 0
DefaultDictRead(cache, extension) ==
    IF extension \in DOMAIN cache THEN cache ELSE SetItem(cache, extension, 0)

\* PythonDictBusyCache._cdr_init
PythonDict_cdr_init(cache, extension) ==
    SetItem(cache, extension, DefaultDictRead(cache, extension)[extension] + 1)

\* a finalize that does not count down
PythonDict_cdr_finalize_noop(cache, extension) == DefaultDictRead(cache, extension)

\* PythonDictBusyCache._cdr_finalize
PythonDict_cdr_finalize(cache, extension) ==
    LET read == DefaultDictRead(cache, extension) IN
    IF read[extension] > 0
    THEN SetItem(read, extension, read[extension] - 1)
    ELSE read

\* PythonDictBusyCache.is_busy: the result, and the dict after the read
PythonDict_is_busy(cache, extension) == DefaultDictRead(cache, extension)[extension] > 0
PythonDict_after_is_busy(cache, extension) == DefaultDictRead(cache, extension)

\* redis HINCRBY busy_cache <extension> <by>: a missing field counts as 0
Hincrby_every_field(hash, field, by) ==
    [f \in DOMAIN hash \cup CdrExtensions |-> GetDefault(hash, f, 0) + by]
Hincrby(hash, field, by) == SetItem(hash, field, GetDefault(hash, field, 0) + by)

\* RedisBusyCache._cdr_init
Redis_cdr_init(hash, extension) == Hincrby(hash, extension, 1)

\* RedisBusyCache._cdr_finalize
Redis_cdr_finalize(hash, extension) == Hincrby(hash, extension, -1)

\* RedisBusyCache.is_busy: hget, then status is not None and int(status) > 0
Redis_is_busy(hash, extension) == extension \in DOMAIN hash /\ hash[extension] > 0

\* the dispatch on the configured class
cdr_init(impl, cache, extension) ==
    IF impl = "PythonDictBusyCache" THEN PythonDict_cdr_init(cache, extension)
    ELSE Redis_cdr_init(cache, extension)

cdr_finalize(impl, cache, extension) ==
    IF impl = "PythonDictBusyCache" THEN PythonDict_cdr_finalize(cache, extension)
    ELSE Redis_cdr_finalize(cache, extension)

is_busy(impl, cache, extension) ==
    IF impl = "PythonDictBusyCache" THEN PythonDict_is_busy(cache, extension)
    ELSE Redis_is_busy(cache, extension)

\* busy_status(): the map handed to the caller
busy_status(impl, cache) == cache

\* flush(): RedisBusyCache deletes the hash busy_cache; PythonDictBusyCache
\* inherits the empty method of BusyCacheBase
flush(impl, cache) ==
    IF impl = "RedisBusyCache" THEN EmptyDict ELSE cache

\* the counter of an extension: a missing entry counts as 0
Counter(cache, extension) == GetDefault(cache, extension, 0)

\* BusyCacheBase._handle_cdr_message: the answers it gives (all unhandled)
handle_cdr_answers_handled(params) == <<TRUE>>
handle_cdr_answers(params) ==
    IF "operation" \notin DOMAIN params THEN <<FALSE, FALSE>> ELSE <<FALSE>>

\* BusyCacheBase._handle_msg_task: the cache after the task ran
handle_msg_task(impl, cache, params) ==
    LET extension == Get(params, "external") IN
    IF extension = None THEN cache
    ELSE IF "operation" \notin DOMAIN params THEN cache   \* KeyError ends the task
    ELSE IF params["operation"] = S_initialize THEN cdr_init(impl, cache, extension)
    ELSE IF params["operation"] = S_finalize THEN cdr_finalize(impl, cache, extension)
    ELSE cache

\* bookkeeping: what the task applied, per extension
NoLog == [inits |-> 0, finals |-> 0, final_at_zero |-> FALSE]
LogOf(log, extension) == GetDefault(log, extension, NoLog)
LogAfterTask(log, cache, params) ==
    LET extension == Get(params, "external") IN
    IF extension = None \/ "operation" \notin DOMAIN params THEN log
    ELSE LET old == LogOf(log, extension) IN
         IF params["operation"] = S_initialize
         THEN SetItem(log, extension, [old EXCEPT !.inits = @ + 1])
         ELSE IF params["operation"] = S_finalize
         THEN SetItem(log, extension,
                      [old EXCEPT !.finals = @ + 1,
                                  !.final_at_zero = @ \/ Counter(cache, extension) <= 0])
         ELSE log

\* the parts of the engine a specification leaves at rest
BusyIdle ==
    /\ busy_cache = EmptyDict
    /\ cdr_tasks = <<>>
    /\ cdr_count = 0
    /\ cdr_answers = <<>>
    /\ cdr_log = EmptyDict
    /\ cdr_sequential = EmptyDict
    /\ last_query = <<"none">>
GenIdle ==
    /\ discovery = <<>>
    /\ generation = <<>>
RouteIdle ==
    /\ cache_impl = "PythonDictRoutingCache"
    /\ routing_cache = EmptyDict
    /\ route_tasks = <<>>
    /\ route_answers = <<>>
    /\ route_count = 0
    /\ cpu = 0
NoStore == [extensions |-> {}, ranks |-> EmptyDict, ringback_files |-> {}]
NoStage2Db == [users |-> {}, registrations |-> <<>>, active_calls |-> {}]

BusyInit ==
    /\ shutdown = FALSE
    /\ routing_db_engine = "open"
    /\ busy_impl \in BusyImpls
    /\ BusyIdle
    /\ store = NoStore
    /\ stage2_db = NoStage2Db
    /\ GenIdle
    /\ RouteIdle

\* the switch delivers a call.cdr message: _handle_cdr_message answers it and
\* creates the task
HandleCdrMessage ==
    \E params \in CdrMessages :
        /\ cdr_count < MaxCdr
        /\ cdr_count' = cdr_count + 1
        /\ cdr_answers' = Append(cdr_answers, handle_cdr_answers(params))
        /\ cdr_tasks' = Append(cdr_tasks, params)
        /\ cdr_sequential' = handle_msg_task(busy_impl, cdr_sequential, params)
        /\ UNCHANGED <<busy_impl, busy_cache, cdr_log, last_query, store, stage2_db, gen_vars,
                       route_vars, shutdown, routing_db_engine>>

\* tasks whose update can take effect next: the event loop starts tasks in
\* creation order and the in-memory update never suspends; the redis variant
\* awaits a command on a pooled connection of its own, so the commands of
\* tasks in flight reach the server in any order
RunnableTasks ==
    IF cdr_tasks = <<>> THEN {}
    ELSE IF busy_impl = "PythonDictBusyCache" THEN {1}
    ELSE DOMAIN cdr_tasks

RemoveAt(s, i) == SubSeq(s, 1, i - 1) \o SubSeq(s, i + 1, Len(s))

\* one _handle_msg_task runs
HandleMsgTask ==
    \E i \in RunnableTasks :
        /\ busy_cache' = handle_msg_task(busy_impl, busy_cache, cdr_tasks[i])
        /\ cdr_log' = LogAfterTask(cdr_log, busy_cache, cdr_tasks[i])
        /\ cdr_tasks' = RemoveAt(cdr_tasks, i)
        /\ UNCHANGED <<busy_impl, cdr_count, cdr_answers, cdr_sequential, last_query,
                       store, stage2_db, gen_vars, route_vars, shutdown, routing_db_engine>>

\* Stage-2 asks is_busy(extension)
QueryIsBusy ==
    \E e \in CdrExtensions :
        /\ last_query' = <<"is_busy", e, is_busy(busy_impl, busy_cache, e)>>
        /\ busy_cache' = IF busy_impl = "PythonDictBusyCache"
                         THEN PythonDict_after_is_busy(busy_cache, e)
                         ELSE busy_cache
        /\ UNCHANGED <<busy_impl, cdr_tasks, cdr_count, cdr_answers, cdr_log, cdr_sequential,
                       store, stage2_db, gen_vars, route_vars, shutdown, routing_db_engine>>

\* the tasks applied one after the other, in the order of the sequence
RECURSIVE handle_msg_tasks(_, _, _)
handle_msg_tasks(impl, cache, tasks) ==
    IF tasks = <<>> THEN cache
    ELSE handle_msg_tasks(impl, handle_msg_task(impl, cache, Head(tasks)), Tail(tasks))

\* `python -m ywsd.busy_cache --flush` against the cache of the running
\* engine: amain calls flush(). The bookkeeping starts again with a cache
\* that was cleared: nothing is applied, and the events whose tasks have
\* not run are those that are still to be counted
Flush ==
    /\ busy_cache' = flush(busy_impl, busy_cache)
    /\ cdr_log' = flush(busy_impl, cdr_log)
    /\ cdr_sequential' = IF busy_impl = "RedisBusyCache"
                         THEN handle_msg_tasks(busy_impl, EmptyDict, cdr_tasks)
                         ELSE cdr_sequential
    /\ UNCHANGED <<busy_impl, cdr_tasks, cdr_count, cdr_answers, last_query,
                   store, stage2_db, gen_vars, route_vars, shutdown, routing_db_engine>>

BusyNext == HandleCdrMessage \/ HandleMsgTask \/ QueryIsBusy \/ Flush

SpecBusy == BusyInit /\ [][BusyNext]_vars

-----------------------------------------------------------------------------
(* Busy cache: claims                                                      *)

\* C1: for every extension and after any sequence of call.cdr events the busy
\* counter is >= 0, in the in-memory and in the redis variant.
C1_CounterNonNegative ==
    \A e \in DOMAIN busy_cache : busy_cache[e] >= 0

\* C2: as long as no finalize was applied at counter 0, the counter of an
\* extension is (initializes applied) - (finalizes applied), and is_busy holds
\* iff that number is > 0; the events count from the empty cache, which is
\* the initial one or the one a flush left.
C2_CounterIsDifference ==
    \A e \in CdrExtensions :
        ~LogOf(cdr_log, e).final_at_zero =>
            /\ Counter(busy_cache, e) = LogOf(cdr_log, e).inits - LogOf(cdr_log, e).finals
            /\ is_busy(busy_impl, busy_cache, e)
                 <=> (LogOf(cdr_log, e).inits - LogOf(cdr_log, e).finals > 0)

\* two initializes and two finalizes were applied in a counted way, and the
\* extension is free again
C2_Witness ==
    /\ ~LogOf(cdr_log, N2042).final_at_zero
    /\ LogOf(cdr_log, N2042).inits = 2
    /\ LogOf(cdr_log, N2042).finals = 2
    /\ ~is_busy(busy_impl, busy_cache, N2042)

-----------------------------------------------------------------------------
(* The extension store: ywsd/objects.py                                    *)

\* A row of table Extension is a record with the fields of FIELDS_PLAIN and
\* FIELDS_TRANSFORM. An integer column that is NULL holds 0 (ids start at 1);
\* a string column that is NULL holds None. forwarding_delay is only read by
\* the code when forwarding_mode is ENABLED, where it is NOT NULL.
\* A row of ForkRank is [id, index, mode, delay, members], its members being
\* the rows of ForkRankMember [extension_id, rankmember_type, active].
\* A store is [extensions |-> set of rows, ranks |-> extension id -> ranks,
\* ringback_files |-> the ringback ids whose .slin file exists]. The ranks of
\* an extension lie in the store in any order, the query sorts them by index;
\* the members of a rank are listed as the database returns them.

\* Extension.__init__: the in-memory node made from a row
Extension(row) ==
    [row |-> row,
     forwarding_mode |-> row.forwarding_mode,
     fork_ranks |-> <<>>,
     forwarding_extension |-> <<>>,      \* <<>> is None, <<node>> a loaded node
     tree_identifier |-> None]

\* Extension.create_external / Extension.create_unknown
SynthRow(extension, name, type) ==
    [id |-> 0, yate_id |-> 0, extension |-> extension, name |-> name,
     short_name |-> None, outgoing_extension |-> None, outgoing_name |-> None,
     dialout_allowed |-> FALSE, ringback |-> None, forwarding_delay |-> 0,
     forwarding_extension_id |-> 0, lang |-> None, type |-> type,
     forwarding_mode |-> "DISABLED"]
create_external(extension) == Extension(SynthRow(extension, <<"External">>, "EXTERNAL"))
create_unknown(extension) == Extension(SynthRow(extension, <<"Unknown">>, "SIMPLE"))

\* Extension.load_extension: <<node>>, or <<>> for DoesNotExist
load_extension(db, extension) ==
    LET rows == {r \in db.extensions : r.extension = extension} IN
    IF rows = {} THEN <<>> ELSE <<Extension(CHOOSE r \in rows : TRUE)>>

\* Extension.load_trunk_extension: the one TRUNK row whose number is a
\* prefix of the dialed number; none or several give DoesNotExist
load_trunk_extension(db, dialed_number) ==
    LET rows == {r \in db.extensions :
                    r.type = "TRUNK" /\ StartsWith(dialed_number, r.extension)} IN
    IF Cardinality(rows) = 1 THEN <<Extension(CHOOSE r \in rows : TRUE)>> ELSE <<>>

\* Extension.load_forwarding_extension (forwarding_extension_id is NOT NULL
\* whenever forwarding_mode is not DISABLED, and references a row)
load_forwarding_extension(db, node) ==
    LET row == CHOOSE r \in db.extensions : r.id = node.row.forwarding_extension_id
        fwd == Extension(row) IN
    [node EXCEPT !.forwarding_extension =
        <<IF node.tree_identifier # None
          THEN [fwd EXCEPT !.tree_identifier = node.tree_identifier \o <<"-">> \o Str(row.id)]
          ELSE fwd>>]

\* .order_by(ForkRank.table.c.index): the rank rows by ascending index
RECURSIVE order_by_index(_)
order_by_index(rows) ==
    IF rows = <<>> THEN <<>>
    ELSE LET k == CHOOSE k \in DOMAIN rows :
                     \A j \in DOMAIN rows :
                         \/ rows[k].index < rows[j].index
                         \/ rows[k].index = rows[j].index /\ k <= j
         IN <<rows[k]>> \o order_by_index(RemoveAt(rows, k))

\* Extension.populate_fork_ranks: the join drops ranks without member rows
\* and orders the ranks by index; the query does not order the members of a
\* rank, they come as the database returns them, which is the order in
\* which the store lists them
populate_fork_ranks(db, node) ==
    LET rows == IF node.row.id \in DOMAIN db.ranks THEN db.ranks[node.row.id] ELSE <<>>
        joined == order_by_index(SelectSeq(rows, LAMBDA r : r.members # <<>>))
        rank_ti(r) == IF node.tree_identifier # None
                      THEN node.tree_identifier \o <<"-fr">> \o Str(r.id)
                      ELSE None
        Member(r, m) ==
            LET row == CHOOSE e \in db.extensions : e.id = m.extension_id
                ext == Extension(row) IN
            [type |-> m.rankmember_type,
             active |-> m.active,
             extension |-> IF node.tree_identifier # None
                           THEN [ext EXCEPT !.tree_identifier =
                                    rank_ti(r) \o <<"-">> \o Str(row.id)]
                           ELSE ext]
    IN [node EXCEPT !.fork_ranks =
          [i \in DOMAIN joined |->
             [id |-> joined[i].id, mode |-> joined[i].mode, delay |-> joined[i].delay,
              tree_identifier |-> rank_ti(joined[i]),
              members |-> [j \in DOMAIN joined[i].members |->
                              Member(joined[i], joined[i].members[j])]]]]

\* Extension.immediate_forward
immediate_forward(node) ==
    node.forwarding_mode = "ENABLED" /\ node.row.forwarding_delay = 0

\* Extension.has_active_group_members
has_active_group_members(node) ==
    \E i \in DOMAIN node.fork_ranks :
        \E j \in DOMAIN node.fork_ranks[i].members : node.fork_ranks[i].members[j].active

-----------------------------------------------------------------------------
(* Discovery: RoutingTreeDiscoveryVisitor, ywsd/routing_tree.py            *)

\* RoutingTreeDiscoveryVisitor.__init__: max_depth=10
max_depth == 10

\* a path test that lets every forward and member be followed
NotOnPath_any(extension, path_extensions_local) == TRUE

\* the path test of _visit before it recurses into a forward or a member
NotOnPath(extension, path_extensions_local) ==
    extension \notin Range(path_extensions_local)

\* a visit without depth limit
DepthLimitReached_never(depth) == FALSE

\* the depth test at the head of _visit
DepthLimitReached(depth) == depth >= max_depth

\* RoutingTreeDiscoveryVisitor._visit. The result holds the node as the visit
\* left it, the visitor's flags, and the calls of _visit made (each with the
\* path it was given), which is the trace the claims on discovery speak of.
RECURSIVE Discovery_visit(_, _, _, _)
Discovery_visit(db, node, depth, path_extensions) ==
    LET call == [extension |-> node.row.extension, depth |-> depth,
                 path |-> path_extensions, expanded |-> ~DepthLimitReached(depth)]
        path_extensions_local == Append(path_extensions, node.row.extension)
        NoVisit(n) == [node |-> n, failed |-> FALSE, pruned |-> FALSE, calls |-> {}]
        \* n3 is the node after the forward was visited or disabled
        Members(n3, fwd_visit, has_fwd, follow_fwd) ==
            LET follow(i, j) ==
                    /\ n3.fork_ranks[i].members[j].active
                    /\ NotOnPath(n3.fork_ranks[i].members[j].extension.row.extension,
                                 path_extensions_local)
                Visited(member_visit, positions) ==
                    [node |-> [n3 EXCEPT !.fork_ranks =
                        [i \in DOMAIN n3.fork_ranks |->
                            [n3.fork_ranks[i] EXCEPT !.members =
                                [j \in DOMAIN n3.fork_ranks[i].members |->
                                    [type |-> n3.fork_ranks[i].members[j].type,
                                     active |-> follow(i, j),
                                     extension |-> member_visit[i][j].node]]]]],
                     failed |-> \/ (follow_fwd /\ fwd_visit.failed)
                                \/ \E p \in positions : member_visit[p[1]][p[2]].failed,
                     pruned |-> \/ (has_fwd /\ ~follow_fwd)
                                \/ (follow_fwd /\ fwd_visit.pruned)
                                \/ \E p \in positions :
                                      \/ (n3.fork_ranks[p[1]].members[p[2]].active
                                          /\ ~follow(p[1], p[2]))
                                      \/ member_visit[p[1]][p[2]].pruned,
                     calls |-> {call}
                               \cup (IF follow_fwd THEN fwd_visit.calls ELSE {})
                               \cup UNION {member_visit[p[1]][p[2]].calls : p \in positions}]
            IN Visited([i \in DOMAIN n3.fork_ranks |->
                          [j \in DOMAIN n3.fork_ranks[i].members |->
                              IF follow(i, j)
                              THEN Discovery_visit(db, n3.fork_ranks[i].members[j].extension,
                                                   depth + 1, path_extensions_local)
                              ELSE NoVisit(n3.fork_ranks[i].members[j].extension)]],
                       UNION {{<<i, j>> : j \in DOMAIN n3.fork_ranks[i].members} :
                                 i \in DOMAIN n3.fork_ranks})
        Forward(n2, has_fwd, follow_fwd) ==
            IF ~has_fwd THEN Members(n2, NoVisit(n2), FALSE, FALSE)
            ELSE IF follow_fwd
            THEN LET Followed(fwd_visit) ==
                         Members([n2 EXCEPT !.forwarding_extension = <<fwd_visit.node>>],
                                 fwd_visit, TRUE, TRUE)
                 IN Followed(Discovery_visit(db, n2.forwarding_extension[1], depth + 1,
                                             path_extensions_local))
            ELSE Members([n2 EXCEPT !.forwarding_mode = "DISABLED"], NoVisit(n2), TRUE, FALSE)
        Loaded(n2) ==
            Forward(n2, n2.forwarding_extension # <<>>,
                    n2.forwarding_extension # <<>>
                    /\ NotOnPath(n2.forwarding_extension[1].row.extension,
                                 path_extensions_local))
        Ranks(n1) ==
            Loaded(IF n1.row.type \in {"GROUP", "MULTIRING"}
                      /\ (n1.forwarding_mode # "ENABLED" \/ n1.row.forwarding_delay > 0)
                   THEN populate_fork_ranks(db, n1) ELSE n1)
    IN IF DepthLimitReached(depth)
       THEN [node |-> node, failed |-> TRUE, pruned |-> FALSE, calls |-> {call}]
       ELSE Ranks(IF node.row.type # "EXTERNAL" /\ node.forwarding_mode # "DISABLED"
                  THEN load_forwarding_extension(db, node) ELSE node)

\* RoutingTree._load_source_and_target: [error |-> "" or "noroute", source,
\* target]; source_extension is an Extension node or a number
load_source_and_target(db, source_is_extension, source_extension, target_extension) ==
    LET source == IF source_is_extension THEN source_extension
                  ELSE LET found == load_extension(db, source_extension) IN
                       IF found # <<>> THEN found[1] ELSE create_unknown(source_extension)
        found == load_extension(db, target_extension)
        trunk == load_trunk_extension(db, target_extension)
        with_ti(n) == [n EXCEPT !.tree_identifier = Str(n.row.id)]
    IN IF found # <<>> THEN [error |-> "", source |-> source, target |-> with_ti(found[1])]
       ELSE IF trunk # <<>> THEN [error |-> "", source |-> source, target |-> with_ti(trunk[1])]
       ELSE [error |-> "noroute", source |-> source, target |-> <<>>]

\* RoutingTree.discover_tree, after the load: the discovered target and the
\* visitor's record; a TRUNK target is not discovered
discover_tree(db, source, target) ==
    IF target.row.type # "TRUNK"
    THEN Discovery_visit(db, target, 0, <<source.row.extension>>)
    ELSE [node |-> target, failed |-> FALSE, pruned |-> FALSE, calls |-> {}]

-----------------------------------------------------------------------------
(* Routing generation: CallTarget, IntermediateRoutingResult and           *)
(* YateRoutingGenerationVisitor, ywsd/routing_tree.py                      *)

\* A CallTarget is [target, parameters, oid]. The code shares CallTarget
\* objects between a result, the leg list of its parent and the cache; oid
\* names the object (the tree identifier of the node whose fork envelope it
\* is, <<>> for every other target), so that a write through one reference
\* is applied to the others.
CallTarget(target, parameters) == [target |-> target, parameters |-> parameters, oid |-> <<>>]

\* the absent CallTarget (Python None in IntermediateRoutingResult.target)
NoCallTarget == [target |-> None, parameters |-> EmptyDict, oid |-> <<>>]

\* CallTarget.is_separator
is_separator(call_target) == StartsWith(call_target.target, <<"|">>)

\* IntermediateRoutingResult.__init__ with fork_targets given / not given
IntermediateRoutingResultFork(target, fork_targets) ==
    IF Len(fork_targets) > 0
    THEN [type |-> "FORK", target |-> target, fork_targets |-> fork_targets]
    ELSE [type |-> "NO_ROUTE", target |-> NoCallTarget, fork_targets |-> <<>>]
IntermediateRoutingResultSimple(target) ==
    IF target # NoCallTarget
    THEN [type |-> "SIMPLE", target |-> target, fork_targets |-> <<>>]
    ELSE [type |-> "NO_ROUTE", target |-> NoCallTarget, fork_targets |-> <<>>]

is_simple(result) == result.type = "SIMPLE"
is_valid(result) == result.type # "NO_ROUTE"

\* what a step of the generation raised: raised is "" (nothing),
\* "RoutingError" or the class of another exception
NoRaise == [raised |-> "", error_code |-> ""]
RoutingError(error_code) == [raised |-> "RoutingError", error_code |-> error_code]
AttributeError == [raised |-> "AttributeError", error_code |-> ""]
TypeError == [raised |-> "TypeError", error_code |-> ""]
\* the error of acquire() on a database engine that was closed
RuntimeError == [raised |-> "RuntimeError", error_code |-> ""]
\* psycopg2.OperationalError, and the error of a redis command whose
\* connection is gone
OperationalError == [raised |-> "OperationalError", error_code |-> ""]
ConnectionClosedError == [raised |-> "ConnectionClosedError", error_code |-> ""]

\* a JSON value that is an object, and one that is a string
JsonObject(object) == [object |-> object]
JsonString(string) == [string |-> string]

\* CallTarget.serialize and CallTarget.deserialize; an object made by
\* deserialize is a new one
CallTarget_serialize(call_target) ==
    [target |-> call_target.target, parameters |-> call_target.parameters]
CallTarget_deserialize(data) == CallTarget(data.target, data.parameters)

\* IntermediateRoutingResult.serialize: "target" is str(None) without target,
\* "fork_targets" is there only for a list that is not empty
serialize(result) ==
    ("type" :> JsonString(<<"Type.", result.type>>))
    @@ ("target" :> IF result.target # NoCallTarget
                    THEN JsonObject(CallTarget_serialize(result.target))
                    ELSE JsonString(<<"None">>))
    @@ (IF result.fork_targets # <<>>
        THEN "fork_targets" :> [i \in DOMAIN result.fork_targets |->
                                   CallTarget_serialize(result.fork_targets[i])]
        ELSE EmptyDict)

\* IntermediateRoutingResult.deserialize: [raise, result]; data["target"] of
\* a string raises TypeError
deserialize(data) ==
    IF "target" \in DOMAIN data /\ "string" \in DOMAIN data["target"]
    THEN [raise |-> TypeError, result |-> IntermediateRoutingResultSimple(NoCallTarget)]
    ELSE [raise |-> NoRaise,
          result |-> IntermediateRoutingResultFork(
                         IF "target" \in DOMAIN data
                         THEN CallTarget_deserialize(data["target"].object)
                         ELSE NoCallTarget,
                         IF "fork_targets" \in DOMAIN data
                         THEN [i \in DOMAIN data["fork_targets"] |->
                                  CallTarget_deserialize(data["fork_targets"][i])]
                         ELSE <<>>)]

\* YateRoutingGenerationVisitor._make_calltarget
make_calltarget(ctx, target, parameters) ==
    CallTarget(target,
               SetItem(SetItem(parameters, "x_eventphone_id", ctx.x_eventphone_id),
                       "osip_X-Eventphone-Id", ctx.x_eventphone_id))

\* YateRoutingGenerationVisitor._cache_intermediate_result, for a result that
\* has a target (a NO_ROUTE result makes it raise AttributeError)
cache_intermediate_result(cache, result) ==
    IF ~is_simple(result) THEN SetItem(cache, result.target.target, result) ELSE cache

\* YateRoutingGenerationVisitor.generate_node_route_string / generate_deferred_routestring
generate_node_route_string(ctx, path) ==
    <<"stage1-">> \o ctx.x_eventphone_id \o <<"-">> \o JoinPath(path)
generate_deferred_routestring(ctx, path) ==
    <<"lateroute/">> \o generate_node_route_string(ctx, path)

\* a target generation that takes every switch host for the local one
host_routing_target_local(ctx, yate_id, number) ==
    IF yate_id = 0 THEN [raise |-> RoutingError("failure"), target |-> NoCallTarget]
    ELSE [raise |-> NoRaise,
          target |-> make_calltarget(ctx, <<"lateroute/">> \o number,
                                     [eventphone_stage2 |-> <<"1">>])]

\* the targets of generate_simple_routing_target and generate_trunk_routing
\* for a number on a switch host
host_routing_target(ctx, yate_id, number) ==
    IF yate_id = 0 THEN [raise |-> RoutingError("failure"), target |-> NoCallTarget]
    ELSE IF yate_id = ctx.local_yate_id
    THEN [raise |-> NoRaise,
          target |-> make_calltarget(ctx, <<"lateroute/">> \o number,
                                     [eventphone_stage2 |-> <<"1">>])]
    ELSE [raise |-> NoRaise,
          target |-> make_calltarget(ctx,
                        <<"sip/sip:">> \o number \o <<"@">> \o ctx.yates_dict[yate_id].hostname,
                        [oconnection_id |-> ctx.yates_dict[yate_id].voip_listener])]

\* YateRoutingGenerationVisitor.generate_simple_routing_target
generate_simple_routing_target(ctx, node) ==
    IF node.row.type = "EXTERNAL"
    THEN [raise |-> NoRaise,
          target |-> make_calltarget(ctx, <<"lateroute/">> \o node.row.extension,
                                     [eventphone_stage2 |-> <<"1">>])]
    ELSE host_routing_target(ctx, node.row.yate_id, node.row.extension)

\* YateRoutingGenerationVisitor.generate_trunk_routing
generate_trunk_routing(ctx, trunk, dialed_number) ==
    LET t == host_routing_target(ctx, trunk.row.yate_id, dialed_number) IN
    [raise |-> t.raise, cache |-> EmptyDict, node |-> <<trunk>>,
     result |-> IntermediateRoutingResultSimple(t.target)]

\* YateRoutingGenerationVisitor.node_has_simple_routing; the generator calls
\* it on nodes without immediate forward only
RECURSIVE node_has_simple_routing(_)
node_has_simple_routing(node) ==
    IF node.row.type = "EXTERNAL" THEN TRUE
    ELSE IF immediate_forward(node)
    THEN node.forwarding_extension # <<>>
         /\ node_has_simple_routing(node.forwarding_extension[1])
    ELSE IF node.row.type = "SIMPLE" THEN node.forwarding_mode = "DISABLED"
    ELSE IF node.row.type = "MULTIRING"
    THEN ~has_active_group_members(node) /\ node.forwarding_mode = "DISABLED"
    ELSE FALSE

\* ForkRank.RankMemberType.is_special_calltype / fork_calltype (name.lower())
is_special_calltype(type) == type # "DEFAULT"
fork_calltype(type) ==
    IF type = "AUXILIARY" THEN <<"auxiliary">>
    ELSE IF type = "PERSISTENT" THEN <<"persistent">> ELSE <<"default">>

\* the separator a rank puts in front of its members
rank_separator(rank) ==
    IF rank.mode = "DROP" THEN <<"|", "drop=">> \o Str(rank.delay)
    ELSE IF rank.mode = "NEXT" THEN <<"|", "next=">> \o Str(rank.delay)
    ELSE <<"|">>

\* a rank loop that never breaks
forward_fired_never(forwarding_mode, accumulated_delay, forwarding_delay) == FALSE

\* the time-based forward has fired before this rank
forward_fired(forwarding_mode, accumulated_delay, forwarding_delay) ==
    forwarding_mode = "ENABLED" /\ accumulated_delay >= forwarding_delay

\* the rank left nothing behind its bare separator
is_empty_default_rank(fork_targets) ==
    fork_targets # <<>> /\ fork_targets[Len(fork_targets)].target = <<"|">>

\* a write of parameter key=value through the legs of a fork reaches the
\* cached results whose envelope is one of these legs
SetOnCachedEnvelopes(cache, legs, key, value) ==
    [name \in DOMAIN cache |->
        IF \E i \in DOMAIN legs : legs[i].oid # <<>> /\ legs[i].oid = cache[name].target.oid
        THEN [cache[name] EXCEPT !.target.parameters = SetItem(@, key, value)]
        ELSE cache[name]]

RECURSIVE Generation_visit(_, _, _, _)
RECURSIVE RankLoop(_, _, _, _, _)
RECURSIVE MemberLoop(_, _, _, _, _)

\* the loop over rank.members in _visit_for_route_calculation, from member j
\* of rank st.rank; the visit of a member leaves its node in st.fork_ranks
MemberLoop(ctx, rank, j, local_path, st) ==
    IF j > Len(rank.members) \/ st.raise # NoRaise THEN st
    ELSE IF ~rank.members[j].active THEN MemberLoop(ctx, rank, j + 1, local_path, st)
    ELSE
    LET Routed(member, r, visited) ==
            IF r.raise # NoRaise THEN [visited EXCEPT !.raise = r.raise]
            ELSE IF ~is_valid(r.result)
            THEN MemberLoop(ctx, rank, j + 1, local_path, [visited EXCEPT !.cache = r.cache])
            ELSE LET member_route ==
                         IF is_special_calltype(member.type)
                         THEN [r.result EXCEPT !.target.parameters =
                                  SetItem(@, "fork.calltype", fork_calltype(member.type))]
                         ELSE r.result
                 IN MemberLoop(ctx, rank, j + 1, local_path,
                        [visited EXCEPT !.fork_targets = Append(@, member_route.target),
                                        !.cache = cache_intermediate_result(r.cache, member_route)])
        Visited(r) ==
            Routed(rank.members[j], r,
                   [st EXCEPT !.fork_ranks[st.rank].members[j].extension = r.node[1]])
    IN Visited(Generation_visit(ctx, <<rank.members[j].extension>>, local_path, st.cache))

\* an untimed rank disables the forward whether or not it has a separator
separator_forwarding_mode_any(rank, not_first, forwarding_mode) ==
    IF rank.mode \notin {"DROP", "NEXT"} /\ forwarding_mode = "ENABLED"
    THEN "DISABLED" ELSE forwarding_mode

\* the forwarding mode of the node after the separator of the rank: an untimed
\* separator disables a time-based forward
separator_forwarding_mode(rank, not_first, forwarding_mode) ==
    IF not_first /\ rank.mode \notin {"DROP", "NEXT"} /\ forwarding_mode = "ENABLED"
    THEN "DISABLED" ELSE forwarding_mode

\* the loop over node.fork_ranks in _visit_for_route_calculation, from rank i;
\* st is [fork_targets, accumulated_delay, forwarding_mode, cache, raise] with
\* the ranks of the node as the visits of their members left them
\* (fork_ranks) and the rank whose members are visited (rank)
RankLoop(ctx, node, i, local_path, st) ==
    IF i > Len(node.fork_ranks) \/ st.raise # NoRaise THEN st
    ELSE
    LET Members(rank, not_first, st0) ==
            \* st0 has the delay and forwarding mode the separator left
            IF not_first /\ forward_fired(st0.forwarding_mode, st0.accumulated_delay,
                                          node.row.forwarding_delay)
            THEN st0        \* break
            ELSE
            LET Cleaned(st2) ==
                    IF st2.raise = NoRaise /\ is_empty_default_rank(st2.fork_targets)
                    THEN [st2 EXCEPT !.fork_targets = SubSeq(@, 1, Len(@) - 1)]
                    ELSE st2
            IN RankLoop(ctx, node, i + 1, local_path,
                   Cleaned(MemberLoop(ctx, rank, 1, local_path,
                       IF not_first
                       THEN [st0 EXCEPT !.rank = i, !.fork_targets =
                                Append(@, CallTarget(rank_separator(rank), EmptyDict))]
                       ELSE [st0 EXCEPT !.rank = i])))
        Separator(rank, not_first) ==
            Members(rank, not_first,
                [st EXCEPT
                    !.accumulated_delay =
                        IF not_first /\ rank.mode \in {"DROP", "NEXT"}
                        THEN @ + rank.delay ELSE @,
                    !.forwarding_mode = separator_forwarding_mode(rank, not_first, @)])
    IN Separator(node.fork_ranks[i], st.fork_targets # <<>>)

\* the separators and the own target that a MULTIRING or SIMPLE node puts in
\* front of its fork_targets
own_targets(node, self_target) ==
    IF node.row.type \in {"MULTIRING", "SIMPLE"}
    THEN <<self_target>> \o
         (IF Len(node.fork_ranks) > 0 /\ node.fork_ranks[1].mode \in {"NEXT", "DROP"}
          THEN <<CallTarget(rank_separator(node.fork_ranks[1]), EmptyDict)>>
          ELSE <<>>)
    ELSE <<>>

\* the separator in front of the target of a forward
forward_separator(forwarding_mode, forwarding_delay, accumulated_delay) ==
    IF forwarding_mode = "ENABLED"
    THEN CallTarget(<<"|", "drop=">> \o Str(forwarding_delay - accumulated_delay), EmptyDict)
    ELSE CallTarget(<<"|">>, EmptyDict)

\* the ON_BUSY rule left out
no_call_wait_skipped(call_target) == call_target

\* the ON_BUSY rule on one leg
no_call_wait(call_target) ==
    IF ~is_separator(call_target)
    THEN [call_target EXCEPT !.parameters = SetItem(@, "osip_X-No-Call-Wait", <<"1">>)]
    ELSE call_target

\* YateRoutingGenerationVisitor._visit and _visit_for_route_calculation:
\* [raise, result, cache, node]; node_opt is <<>> when the code passes None,
\* node is the node as the visit left it: an untimed separator has written
\* DISABLED over the forwarding_mode ENABLED of its node
Generation_visit(ctx, node_opt, path, cache) ==
    IF node_opt = <<>>
    THEN [raise |-> AttributeError, result |-> IntermediateRoutingResultSimple(NoCallTarget),
          cache |-> cache, node |-> <<>>]
    ELSE
    LET failed(raise, c, n) ==
            [raise |-> raise, result |-> IntermediateRoutingResultSimple(NoCallTarget),
             cache |-> c, node |-> <<n>>]
        \* the fork of node: st is what the ranks made, self the node's own
        \* target, with_self the legs before the forward
        Fork(node, local_path, st, self, with_self) ==
            LET left == [node EXCEPT !.forwarding_mode = st.forwarding_mode,
                                     !.fork_ranks = st.fork_ranks]
                on_busy == st.forwarding_mode = "ON_BUSY"
                forwards == st.forwarding_mode \in {"ENABLED", "ON_BUSY", "ON_UNAVAILABLE"}
                envelope == [make_calltarget(ctx,
                                 generate_deferred_routestring(ctx, local_path), EmptyDict)
                                EXCEPT !.oid = node.tree_identifier]
                Forwarded(legs, fwd) ==
                    IF fwd.raise # NoRaise
                    THEN failed(fwd.raise, fwd.cache,
                                [left EXCEPT !.forwarding_extension = fwd.node])
                    ELSE IF ~is_valid(fwd.result)
                    THEN failed(AttributeError, fwd.cache,
                                [left EXCEPT !.forwarding_extension = fwd.node])
                    ELSE [raise |-> NoRaise,
                          node |-> <<[left EXCEPT !.forwarding_extension = fwd.node]>>,
                          cache |-> cache_intermediate_result(fwd.cache, fwd.result),
                          result |-> IntermediateRoutingResultFork(envelope,
                                       legs \o <<forward_separator(st.forwarding_mode,
                                                                   node.row.forwarding_delay,
                                                                   st.accumulated_delay),
                                                 fwd.result.target>>)]
                Legs(legs, cache1) ==
                    IF ~forwards
                    THEN [raise |-> NoRaise, cache |-> cache1, node |-> <<left>>,
                          result |-> IntermediateRoutingResultFork(envelope, legs)]
                    ELSE Forwarded(legs, Generation_visit(ctx, node.forwarding_extension,
                                                          local_path, cache1))
            IN IF st.raise # NoRaise THEN failed(st.raise, st.cache, left)
               ELSE IF node.row.type \in {"MULTIRING", "SIMPLE"} /\ self.raise # NoRaise
               THEN failed(self.raise, st.cache, left)
               ELSE IF on_busy
               THEN Legs([i \in DOMAIN with_self |-> no_call_wait(with_self[i])],
                         SetOnCachedEnvelopes(st.cache, with_self,
                                              "osip_X-No-Call-Wait", <<"1">>))
               ELSE Legs(with_self, st.cache)
        WithRanks(node, local_path, st, self) ==
            Fork(node, local_path, st, self, own_targets(node, self.target) \o st.fork_targets)
        Deferred(node, fwd) ==
            [fwd EXCEPT !.node = <<[node EXCEPT !.forwarding_extension = fwd.node]>>]
        Visit(node, local_path) ==
            IF immediate_forward(node)
            THEN Deferred(node, Generation_visit(ctx, node.forwarding_extension,
                                                 local_path, cache))
            ELSE IF node_has_simple_routing(node)
            THEN LET Simple(t) ==
                         [raise |-> t.raise, cache |-> cache, node |-> <<node>>,
                          result |-> IntermediateRoutingResultSimple(t.target)]
                 IN Simple(generate_simple_routing_target(ctx, node))
            ELSE WithRanks(node, local_path,
                           RankLoop(ctx, node, 1, local_path,
                                    [fork_targets |-> <<>>, accumulated_delay |-> 0,
                                     forwarding_mode |-> node.forwarding_mode,
                                     fork_ranks |-> node.fork_ranks, rank |-> 0,
                                     cache |-> cache, raise |-> NoRaise]),
                           generate_simple_routing_target(ctx, node))
    IN Visit(node_opt[1], Append(path, node_opt[1].row.id))

-----------------------------------------------------------------------------
(* RoutingTree.calculate_routing, ywsd/routing_tree.py                     *)

\* settings read by the routing code
RINGBACK_TOP_DIRECTORY == <<"/opt/sounds">>
INTERNAL_YATE_LISTENER == <<"internal">>

\* the parameters dict of this leg is the dict of the envelope
SharesEnvelopeParameters == <<"parameters of the envelope">>

\* RoutingTree._make_ringback_target
make_ringback_target(path) ==
    CallTarget(<<"wave/play/">> \o path,
               ("fork.calltype" :> <<"persistent">>) @@ ("fork.autoring" :> <<"true">>)
                 @@ ("fork.automessage" :> <<"call.progress">>))

\* os.path.join(RINGBACK_TOP_DIRECTORY, ringback) + ".slin"
ringback_path(ringback) == RINGBACK_TOP_DIRECTORY \o <<"/">> \o ringback \o <<".slin">>

\* a _provide_ringback that converts the result whether or not there is a
\* ringback file
provide_ringback_unchecked(db, target, routing_result) ==
    IF is_simple(routing_result)
    THEN IntermediateRoutingResultFork(
             CallTarget(<<"fork">>, routing_result.target.parameters),
             <<make_ringback_target(ringback_path(<<"ring">>)),
               [routing_result.target EXCEPT !.oid = SharesEnvelopeParameters]>>)
    ELSE [routing_result EXCEPT !.fork_targets =
             <<make_ringback_target(ringback_path(<<"ring">>))>> \o @]

\* RoutingTree._provide_ringback
provide_ringback(db, target, routing_result) ==
    IF target.row.ringback # None /\ target.row.ringback \in db.ringback_files
    THEN IF is_simple(routing_result)
         THEN IntermediateRoutingResultFork(
                  CallTarget(<<"fork">>, routing_result.target.parameters),
                  <<make_ringback_target(ringback_path(target.row.ringback)),
                    [routing_result.target EXCEPT !.oid = SharesEnvelopeParameters]>>)
         ELSE [routing_result EXCEPT !.fork_targets =
                  <<make_ringback_target(ringback_path(target.row.ringback))>> \o @]
    ELSE routing_result

\* the parameters RoutingTree._populate_source_and_target_parameters merges
source_and_target_parameters(source, target, source_params) ==
    LET with_name == IF target.row.name # None
                     THEN SetItem(source_params, "calledname", target.row.name)
                     ELSE source_params
    IN IF target.row.type = "GROUP" /\ target.row.short_name # None
       THEN SetItem(with_name, "callername",
                    <<"[">> \o target.row.short_name \o <<"] ">>
                      \o GetDefault(source_params, "callername", source.row.name))
       ELSE with_name

\* RoutingTree._populate_parameters_global on one result: the envelope when
\* it is one of the updated entries, and every leg that is the envelope of a
\* cache entry or shares the dict of the updated envelope
populate_result(result, is_entry, cache, parameters) ==
    LET cached_oids == {cache[name].target.oid : name \in DOMAIN cache} \ {<<>>}
        leg(l) == IF \/ l.oid \in cached_oids
                     \/ (is_entry /\ l.oid = SharesEnvelopeParameters)
                  THEN [l EXCEPT !.parameters = Update(@, parameters)]
                  ELSE l
    IN [type |-> result.type,
        target |-> IF is_entry
                   THEN [result.target EXCEPT !.parameters = Update(@, parameters)]
                   ELSE result.target,
        fork_targets |-> [i \in DOMAIN result.fork_targets |-> leg(result.fork_targets[i])]]

\* cache entries left as the generator made them
populate_cache_skipped(cache, parameters) == cache

\* RoutingTree._populate_parameters_global on new_routing_cache_content
populate_cache(cache, parameters) ==
    [name \in DOMAIN cache |-> populate_result(cache[name], TRUE, cache, parameters)]

\* RoutingTree.calculate_routing on a discovered tree:
\* [raise, routing_result, new_routing_cache_content], and the tree as the
\* generator left it (target)
calculate_routing(db, ctx, source, target, target_extension, source_params) ==
    LET Routed(main, parameters) ==
            IF main.raise # NoRaise
            THEN [raise |-> main.raise, routing_result |-> main.result,
                  new_routing_cache_content |-> EmptyDict, target |-> main.node[1]]
            ELSE IF ~is_valid(main.result)
            THEN [raise |-> RoutingError("noroute"), routing_result |-> main.result,
                  new_routing_cache_content |-> main.cache, target |-> main.node[1]]
            ELSE [raise |-> NoRaise, target |-> main.node[1],
                  routing_result |-> populate_result(provide_ringback(db, target, main.result),
                                                     TRUE, main.cache, parameters),
                  new_routing_cache_content |-> populate_cache(main.cache, parameters)]
    IN Routed(IF target.row.type # "TRUNK"
              THEN Generation_visit(ctx, <<target>>, <<>>, EmptyDict)
              ELSE generate_trunk_routing(ctx, target, target_extension),
              source_and_target_parameters(source, target, source_params))

-----------------------------------------------------------------------------
(* The reply encoding, ywsd/yate.py                                        *)

\* the parameter name "callto.<index>" and "callto.<index>.<key>"; parameter
\* names of a message are sequences of tokens
Key(name) == <<name>>
callto(index) == <<"callto.">> \o Str(index)
callto_key(index, key) == callto(index) \o <<".", key>>

\* the keys of a CallTarget's parameters as message parameter names
AsMessageParams(parameters) ==
    [k \in {Key(name) : name \in DOMAIN parameters} |-> parameters[k[1]]]

\* a calltargets_to_callfork_params that emits every parameter of every leg
calltargets_to_callfork_params_all(call_targets, global_params) ==
    LET names == {callto(i) : i \in DOMAIN call_targets}
                 \cup UNION {{callto_key(i, key) : key \in DOMAIN call_targets[i].parameters} :
                                i \in DOMAIN call_targets}
        value(name) ==
            LET i == CHOOSE i \in DOMAIN call_targets : StartsWith(name, callto(i))
                                 /\ (Len(name) = Len(callto(i)) \/ name[Len(callto(i)) + 1] = ".")
            IN IF name = callto(i) THEN call_targets[i].target
               ELSE call_targets[i].parameters[name[Len(name)]]
    IN [name \in names |-> value(name)]

\* calltargets_to_callfork_params
calltargets_to_callfork_params(call_targets, global_params) ==
    LET overridden(i) ==
            {key \in DOMAIN call_targets[i].parameters :
                key \notin DOMAIN global_params
                \/ global_params[key] # call_targets[i].parameters[key]}
        names == {callto(i) : i \in DOMAIN call_targets}
                 \cup UNION {{callto_key(i, key) : key \in overridden(i)} :
                                i \in DOMAIN call_targets}
        value(name) ==
            LET i == CHOOSE i \in DOMAIN call_targets : StartsWith(name, callto(i))
                                 /\ (Len(name) = Len(callto(i)) \/ name[Len(callto(i)) + 1] = ".")
            IN IF name = callto(i) THEN call_targets[i].target
               ELSE call_targets[i].parameters[name[Len(name)]]
    IN [name \in names |-> value(name)]

\* encode_routing_result: the message [params, return_value] after it
encode_routing_result(msg, result) ==
    LET global_parameters == result.target.parameters
        params == Update(msg.params, AsMessageParams(global_parameters))
    IN IF is_simple(result)
       THEN [params |-> params, return_value |-> result.target.target]
       ELSE [params |-> Update(params,
                               calltargets_to_callfork_params(result.fork_targets,
                                                              global_parameters)),
             return_value |-> <<"fork">>]

-----------------------------------------------------------------------------
(* The Stage-1 task, ywsd/stage1.py                                        *)

\* settings.LOCAL_YATE_ID and the Yate table (engine.yates_dict)
LOCAL_YATE_ID == 2
yates_dict ==
    (1 :> [hostname |-> <<"dect">>, voip_listener |-> <<"local">>])
    @@ (2 :> [hostname |-> <<"sip">>, voip_listener |-> <<"local">>])

\* uuid.uuid4().hex of the n-th generation visitor: a fresh value each time
uuid4_hex(n) == <<"uuid">> \o Str(n)

GenerationContext(n) ==
    [local_yate_id |-> LOCAL_YATE_ID, yates_dict |-> yates_dict,
     x_eventphone_id |-> uuid4_hex(n)]

\* a _sanitize_caller that trusts every caller
sanitize_caller_trusting(db, params, caller) ==
    [raise |-> NoRaise, is_extension |-> TRUE,
     caller |-> IF load_extension(db, caller) # <<>> THEN load_extension(db, caller)[1]
                ELSE create_external(caller)]

\* RoutingTask._sanitize_caller: [raise, is_extension, caller]; on the
\* internal listener it returns the caller parameter itself
sanitize_caller(db, params, caller) ==
    IF GetDefault(params, Key("connection_id"), <<>>) = INTERNAL_YATE_LISTENER
    THEN [raise |-> NoRaise, is_extension |-> FALSE, caller |-> caller]
    ELSE LET found == load_extension(db, caller)
             username == Get(params, Key("username")) IN
         IF found = <<>>
         THEN [raise |-> NoRaise, is_extension |-> TRUE, caller |-> create_external(caller)]
         ELSE IF username = None
         THEN [raise |-> RoutingError("noauth"), is_extension |-> TRUE, caller |-> found[1]]
         ELSE IF username # caller
         THEN [raise |-> RoutingError("forbidden"), is_extension |-> TRUE, caller |-> found[1]]
         ELSE [raise |-> NoRaise, is_extension |-> TRUE, caller |-> found[1]]

\* RoutingTask.calculate_source_parameters
calculate_source_parameters(source) ==
    LET p1 == IF source.row.outgoing_extension # None /\ source.row.outgoing_extension # <<>>
              THEN [caller |-> source.row.outgoing_extension,
                    callername |-> source.row.outgoing_name]
              ELSE [callername |-> source.row.name]
        p2 == IF source.row.lang # None
              THEN SetItem(p1, "osip_X-Caller-Language", source.row.lang) ELSE p1
    IN IF source.row.dialout_allowed
       THEN SetItem(p2, "osip_X-Dialout-Allowed", <<"1">>) ELSE p2

\* except branches that answer without the caller parameters, and that leave
\* every failed message to other handlers
stage1_error_answer_unmerged(msg, raise, caller_params) ==
    [message |-> msg, handled |-> raise.raised # "RoutingError" \/ raise.error_code # "noroute"]
stage1_error_answer_unhandled(msg, raise, caller_params) ==
    [message |-> [msg EXCEPT !.params = SetItem(@, Key("error"), <<raise.error_code>>)],
     handled |-> FALSE]

\* the except branches of _calculate_stage1_routing: the message and the
\* handled flag for what was raised
stage1_error_answer(msg, raise, caller_params) ==
    IF raise.raised = "RoutingError" /\ raise.error_code = "noroute"
    THEN [message |-> [msg EXCEPT !.params = Update(@, AsMessageParams(caller_params))],
          handled |-> FALSE]
    ELSE IF raise.raised = "RoutingError"
    THEN [message |-> [msg EXCEPT !.params =
                          SetItem(@, Key("error"), <<raise.error_code>>)],
          handled |-> TRUE]
    ELSE [message |-> [msg EXCEPT !.params = SetItem(@, Key("error"), <<"failure">>)],
          handled |-> TRUE]

\* self._yate.routing_db_engine.acquire() and the entry of `async with`, in
\* the try of _calculate_stage1_routing: acquire() of a closed engine raises,
\* and None has no acquire
routing_db_engine_acquire(engine) ==
    IF engine = "closed" THEN RuntimeError
    ELSE IF engine = "None" THEN AttributeError
    ELSE NoRaise

\* _calculate_stage1_routing from the caller that _sanitize_caller returned to
\* the RoutingTree it makes: `caller.type` of the caller parameter that the
\* internal listener gets back raises; [raise, caller, caller_params]
stage1_routing_tree(s) ==
    IF s.raise # NoRaise THEN [raise |-> s.raise, caller |-> <<>>, caller_params |-> EmptyDict]
    ELSE IF ~s.is_extension
    THEN [raise |-> AttributeError, caller |-> <<>>, caller_params |-> EmptyDict]
    ELSE [raise |-> NoRaise, caller |-> <<s.caller>>,
          caller_params |-> IF s.caller.row.type # "EXTERNAL"
                            THEN calculate_source_parameters(s.caller) ELSE EmptyDict]

\* await routing_tree.discover_tree(db_connection) in
\* _calculate_stage1_routing: [raise, routing_tree], the tree with its source
\* and its discovered target
stage1_discover_tree(db, caller, called) ==
    LET Loaded(loaded) ==
            IF loaded.error # ""
            THEN [raise |-> RoutingError(loaded.error), routing_tree |-> <<>>]
            ELSE [raise |-> NoRaise,
                  routing_tree |-> <<[source |-> loaded.source,
                                      target |-> discover_tree(db, loaded.source,
                                                               loaded.target).node]>>]
    IN Loaded(load_source_and_target(db, TRUE, caller, called))

\* routing_tree.calculate_routing(...) in _calculate_stage1_routing, after the
\* connection was left: [raise, routing_result, routing_cache_entries,
\* routing_tree]
stage1_calculate_routing(db, routing_tree, called, caller_params, n) ==
    LET Routed(routed) ==
            [raise |-> routed.raise,
             routing_result |-> IF routed.raise = NoRaise THEN routed.routing_result
                                ELSE IntermediateRoutingResultSimple(NoCallTarget),
             routing_cache_entries |-> IF routed.raise = NoRaise
                                       THEN routed.new_routing_cache_content
                                       ELSE EmptyDict,
             routing_tree |-> <<[routing_tree EXCEPT !.target = routed.target]>>]
    IN Routed(calculate_routing(db, GenerationContext(n), routing_tree.source,
                                routing_tree.target, called, caller_params))

-----------------------------------------------------------------------------
(* The routing cache and the dispatch, ywsd/routing_cache.py, engine.py    *)

\* an update that stores nothing
PythonDictRoutingCache_update_lost(cache, results) == cache

\* a retrieve that finds nothing
PythonDictRoutingCache_retrieve_miss(cache, target) == <<>>

\* PythonDictRoutingCache.update / retrieve
PythonDictRoutingCache_update(cache, results) == Update(cache, results)
PythonDictRoutingCache_retrieve(cache, target) ==
    IF target \in DOMAIN cache THEN <<cache[target]>> ELSE <<>>

\* YateRoutingEngine._call_route_handler: the task it creates, "" for none
call_route_handler(params) ==
    LET called == Get(params, Key("called"))
        stage2_active == GetDefault(params, Key("eventphone_stage2"), <<"0">>) IN
    IF called = None \/ called = <<>> THEN ""
    ELSE IF IsDigit(called)
    THEN IF GetDefault(params, Key("connection_id"), <<>>) = INTERNAL_YATE_LISTENER
            \/ stage2_active = <<"1">>
         THEN "stage2" ELSE "stage1"
    ELSE IF StartsWith(called, <<"stage1-">>) THEN "retrieve"
    ELSE IF StartsWith(called, <<"stage2-">>) THEN "stage2"
    ELSE ""

\* CACHE_CONFIG.get("object_lifetime", 600): the seconds a key of the redis
\* cache lives after it was set
object_lifetime == 600

\* RedisRoutingCache.update of one key / retrieve: the value of a key is the
\* JSON text of serialize(), which json.loads gives back as it was dumped,
\* and the key has the seconds left of its lifetime; a retrieve whose
\* connection is gone raises, as does deserialize
CacheImpls == {"PythonDictRoutingCache", "RedisRoutingCache"}
RedisRoutingCache_set(cache, key, routing_result) ==
    SetItem(cache, key, [document |-> serialize(routing_result), expire |-> object_lifetime])

\* redis after some seconds: the keys whose lifetime is over are gone
RedisRoutingCache_expire(cache, seconds) ==
    [key \in {k \in DOMAIN cache : cache[k].expire > seconds} |->
        [cache[key] EXCEPT !.expire = @ - seconds]]
RedisRoutingCache_retrieve(cache, target, connection_lost) ==
    IF connection_lost THEN [raise |-> ConnectionClosedError, result |-> <<>>]
    ELSE IF target \notin DOMAIN cache THEN [raise |-> NoRaise, result |-> <<>>]
    ELSE LET data == deserialize(cache[target].document) IN
         IF data.raise # NoRaise THEN [raise |-> data.raise, result |-> <<>>]
         ELSE [raise |-> NoRaise, result |-> <<data.result>>]

\* YateRoutingEngine._retrieve_from_cache_for with what the retrieve gave:
\* the exception it raises again, or the message it answers with (always
\* handled)
retrieve_from_cache_for(msg, retrieved) ==
    IF retrieved.raise # NoRaise THEN [raise |-> retrieved.raise, message |-> msg]
    ELSE IF retrieved.result = <<>> THEN [raise |-> NoRaise, message |-> msg]
    ELSE [raise |-> NoRaise, message |-> encode_routing_result(msg, retrieved.result[1])]

-----------------------------------------------------------------------------
(* Store contents: the Extension, ForkRank and ForkRankMember tables and   *)
(* the ringback files on disk                                              *)

MaxRanks == 2

\* a row of the Extension table (lang is NOT NULL)
Row(id, yate_id, extension, name, type, fwd_mode, fwd_delay, fwd_extension_id) ==
    [id |-> id, yate_id |-> yate_id, extension |-> extension, name |-> name,
     short_name |-> None, outgoing_extension |-> None, outgoing_name |-> None,
     dialout_allowed |-> FALSE, ringback |-> None,
     forwarding_delay |-> fwd_delay,
     forwarding_extension_id |-> fwd_extension_id, lang |-> <<"de_DE">>,
     type |-> type, forwarding_mode |-> fwd_mode]

\* a row of ForkRankMember and a row of ForkRank with its members
Member(extension_id, rankmember_type, active) ==
    [extension_id |-> extension_id, rankmember_type |-> rankmember_type,
     active |-> active]
Rank(id, index, mode, delay, members) ==
    [id |-> id, index |-> index, mode |-> mode, delay |-> delay, members |-> members]

N2000 == Str(2000)
N2001 == Str(2001)
N2002 == Str(2002)
N2004 == Str(2004)
N2005 == Str(2005)
N3001 == Str(3001)
N4000 == Str(4000)
N4747 == Str(4747)
N4748 == Str(4748)
N55 == Str(55)
N66 == Str(66)

ChainIds == 11 .. 21

\* the rows every store holds: a remote and a local SIMPLE extension, a
\* MULTIRING one with a member, a GROUP without ranks, two trunks (one without
\* a switch), a SIMPLE extension that forwards to 2000, an EXTERNAL one, a
\* source with outgoing identity, and eleven extensions that forward to each
\* other in a row
BaseRows ==
    { Row(1, 1, N2004, <<"PoC BeF">>, "SIMPLE", "DISABLED", 0, 0),
      [Row(2, 2, N2005, <<"PoC Sascha">>, "SIMPLE", "DISABLED", 0, 0)
          EXCEPT !.lang = <<"de_DE">>, !.dialout_allowed = TRUE],
      Row(3, 1, N2001, <<"PoC Sascha">>, "MULTIRING", "DISABLED", 0, 0),
      Row(4, 0, N4000, <<"Empty">>, "GROUP", "DISABLED", 0, 0),
      Row(5, 0, Str(5), <<"Trunk">>, "TRUNK", "DISABLED", 0, 0),
      Row(6, 1, Str(6), <<"Trunk DECT">>, "TRUNK", "DISABLED", 0, 0),
      Row(7, 2, N2042, <<"PoC garwin">>, "SIMPLE", "ON_UNAVAILABLE", 0, 9),
      Row(8, 0, <<"0", "9", "0", "1">>, <<"Outside">>, "EXTERNAL", "DISABLED", 0, 0),
      [Row(10, 2, N2002, <<"PoC Bernie">>, "SIMPLE", "DISABLED", 0, 0)
          EXCEPT !.outgoing_extension = <<"9", "9", "9", "0">>,
                 !.outgoing_name = <<"Hotline">>, !.lang = <<"en_GB">>] }
    \cup { Row(i, 2, Str(2990 + i), <<"Chain">>, "SIMPLE",
               IF i < 21 THEN "ON_UNAVAILABLE" ELSE "DISABLED", 0,
               IF i < 21 THEN i + 1 ELSE 0) : i \in ChainIds }

BaseRanks == (3 :> <<Rank(1, 0, "DEFAULT", 0, <<Member(2, "DEFAULT", TRUE)>>)>>)

\* the members of a rank of 2000, in the order the database returns them:
\* a routable extension; none that can be routed; a MULTIRING extension with
\* an auxiliary one, in both orders; an extension that forwards back to 2000
MemberLists ==
    { <<Member(1, "DEFAULT", TRUE)>>,
      <<Member(1, "DEFAULT", FALSE), Member(4, "DEFAULT", TRUE)>>,
      <<Member(3, "DEFAULT", TRUE), Member(2, "AUXILIARY", TRUE)>>,
      <<Member(2, "AUXILIARY", TRUE), Member(3, "DEFAULT", TRUE)>>,
      <<Member(7, "DEFAULT", TRUE)>> }
RankModes == {<<"DEFAULT", 0>>, <<"NEXT", 1>>, <<"DROP", 2>>}

\* the rank lists of 2000 of length n: the rows lie in the table with the
\* newest rank, which has the highest index, first
RECURSIVE RankLists(_)
RankLists(n) ==
    IF n = 0 THEN {<<>>}
    ELSE {<<Rank(20 + n, n, md[1], md[2], ms)>> \o rs :
             rs \in RankLists(n - 1), md \in RankModes, ms \in MemberLists}
RootRanks == UNION {RankLists(n) : n \in 0 .. MaxRanks}

\* forwarding_mode, forwarding_delay and forwarding_extension_id of 2000
RootForwards ==
    { <<"DISABLED", 0, 0>>, <<"ENABLED", 0, 1>>, <<"ENABLED", 2, 1>>,
      <<"ENABLED", 2, 7>>, <<"ENABLED", 2, 4>>, <<"ON_BUSY", 0, 1>>, <<"ON_BUSY", 0, 3>>,
      <<"ON_UNAVAILABLE", 0, 1>>, <<"ON_UNAVAILABLE", 0, 4>>, <<"ON_UNAVAILABLE", 0, 11>>,
      <<"ON_UNAVAILABLE", 0, 9>> }

RootRow(type, fw) ==
    [Row(9, 2, N2000, <<"PoC">>, type, fw[1], fw[2], fw[3])
        EXCEPT !.short_name = <<"PoC">>, !.ringback = <<"ring">>]

Store(root, ranks, ringback_files) ==
    [extensions |-> BaseRows \cup {root},
     ranks |-> IF ranks # <<>> THEN (9 :> ranks) @@ BaseRanks ELSE BaseRanks,
     ringback_files |-> ringback_files]

\* the stores of the generation checks: every kind, forwarding and rank list
\* of 2000 (only GROUP and MULTIRING rows have ranks read)
GenStores ==
    {Store(RootRow(type, fw), ranks, {}) :
        type \in {"GROUP", "MULTIRING"}, fw \in RootForwards, ranks \in RootRanks}
    \cup {Store(RootRow(type, fw), <<>>, {}) :
             type \in {"SIMPLE", "EXTERNAL"}, fw \in RootForwards}

-----------------------------------------------------------------------------
(* Discovery and generation over the stores: RoutingTree                   *)

GenCallers == {N4748, N2004}
GenCalled == {N2000, N3001}

GenInit ==
    /\ shutdown = FALSE
    /\ routing_db_engine = "open"
    /\ store \in GenStores
    /\ stage2_db = NoStage2Db
    /\ GenIdle
    /\ busy_impl = "PythonDictBusyCache"
    /\ BusyIdle
    /\ RouteIdle

\* RoutingTree.discover_tree for a caller and a called number
DiscoverTree ==
    \E caller \in GenCallers, called \in GenCalled :
        LET found == load_extension(store, caller)
            source == IF found # <<>> THEN found[1] ELSE create_external(caller)
            loaded == load_source_and_target(store, TRUE, source, called) IN
        /\ discovery = <<>>
        /\ loaded.error = ""
        /\ discovery' = <<[source |-> loaded.source, target_extension |-> called,
                           visitor |-> discover_tree(store, loaded.source, loaded.target)]>>
        /\ UNCHANGED <<busy_vars, store, stage2_db, generation, route_vars, shutdown, routing_db_engine>>

\* RoutingTree.calculate_routing on the discovered tree; the generator
\* writes to the nodes of the tree it walks
CalculateRouting ==
    /\ discovery # <<>>
    /\ generation = <<>>
    /\ \E routed \in {calculate_routing(store, GenerationContext(1), discovery[1].source,
                                        discovery[1].visitor.node,
                                        discovery[1].target_extension, EmptyDict)} :
        /\ generation' = <<[raise |-> routed.raise, routing_result |-> routed.routing_result,
                            new_routing_cache_content |-> routed.new_routing_cache_content]>>
        /\ discovery' = <<[discovery[1] EXCEPT !.visitor.node = routed.target]>>
    /\ UNCHANGED <<busy_vars, store, stage2_db, route_vars, shutdown, routing_db_engine>>

GenNext == DiscoverTree \/ CalculateRouting

SpecGen == GenInit /\ [][GenNext]_vars

\* the Fork results calculate_routing emitted: the root's and the cached ones
EmittedForks ==
    IF generation = <<>> \/ generation[1].raise # NoRaise THEN {}
    ELSE {r \in {generation[1].routing_result}
                \cup {generation[1].new_routing_cache_content[name] :
                         name \in DOMAIN generation[1].new_routing_cache_content} :
             r.type = "FORK"}

Targets(fork) == [i \in DOMAIN fork.fork_targets |-> fork.fork_targets[i].target]

-----------------------------------------------------------------------------
(* call.route messages: the dispatch, the Stage-1 task and the cache       *)
(* retrieval task                                                          *)

MaxRoute == 2

\* the stores of the message runs: 2000 is a GROUP of the MULTIRING 2001 and
\* an auxiliary 2005; in the second store it also forwards on busy to 2004
\* and its ringback file is on disk; in the third the database returns the
\* auxiliary member first
Stage1Store(forwarding, ringback_files) ==
    Store(RootRow("GROUP", forwarding),
          <<Rank(21, 1, "DEFAULT", 0,
                 <<Member(3, "DEFAULT", TRUE), Member(2, "AUXILIARY", TRUE)>>)>>,
          ringback_files)
Stage1Stores ==
    { Stage1Store(<<"DISABLED", 0, 0>>, {}),
      Stage1Store(<<"ON_BUSY", 0, 1>>, {<<"ring">>}),
      [Stage1Store(<<"DISABLED", 0, 0>>, {}) EXCEPT
          !.ranks[9][1].members =
              <<Member(2, "AUXILIARY", TRUE), Member(3, "DEFAULT", TRUE)>>] }

\* the parameters of a call.route message; an absent parameter is <<>> here
RouteParams(caller, called, username) ==
    (IF caller # <<>> THEN Key("caller") :> caller ELSE EmptyDict)
    @@ (IF called # <<>> THEN Key("called") :> called ELSE EmptyDict)
    @@ (IF username # <<>> THEN Key("username") :> username ELSE EmptyDict)

\* the call.route messages the switch sends: calls from outside and from
\* extensions with, without and with a wrong username, to a group, a simple
\* extension, an unknown number, a group without members and two trunks; and
\* the re-entries for the names in the cache and for a name that is not
CallRouteMessages(cache) ==
    { RouteParams(N4748, N2000, <<>>),
      RouteParams(N2002, N2000, N2002),
      RouteParams(N2001, N2004, <<>>),
      RouteParams(N2001, N2004, N2005),
      RouteParams(N2001, N2004, N2001),
      RouteParams(N2005, N4747, N2005),
      RouteParams(N2002, N4000, N2002),
      RouteParams(N4748, N55, <<>>),
      RouteParams(N4748, N66, <<>>),
      RouteParams(<<>>, N2004, <<>>),
      RouteParams(N2001, <<>>, <<>>),
      RouteParams(N4748, <<"stage1-", "nothing">>, <<>>) }
    \cup { RouteParams(N4748, SubSeq(name, 2, Len(name)), <<>>) : name \in DOMAIN cache }

Message(params) == [params |-> params, return_value |-> None]

NewTask(kind, params) ==
    [kind |-> kind, request |-> params, message |-> Message(params), pc |-> "start",
     raise |-> NoRaise,
     routing_result |-> IntermediateRoutingResultSimple(NoCallTarget),
     routing_cache_entries |-> EmptyDict, caller_params |-> EmptyDict,
     caller |-> <<>>, routing_tree |-> <<>>, cached |-> {}, retrieved |-> <<>>,
     handled |-> FALSE, asked |-> <<>>,
     attempts |-> 0, failures |-> 0, slept |-> <<>>]

Answer(task, message, handled) == [task |-> task, message |-> message, handled |-> handled]

RouteInit ==
    /\ shutdown = FALSE
    /\ routing_db_engine = "open"
    /\ store \in Stage1Stores
    /\ stage2_db = NoStage2Db
    /\ RouteIdle
    /\ busy_impl = "PythonDictBusyCache"
    /\ BusyIdle
    /\ GenIdle

\* the switch delivers a call.route message: _call_route_handler creates the
\* task for it, or returns False
CallRoute ==
    \E params \in CallRouteMessages(routing_cache) :
        LET kind == call_route_handler(params) IN
        /\ cpu = 0
        /\ route_count < MaxRoute
        /\ kind \in {"", "stage1", "retrieve"}
        /\ route_count' = route_count + 1
        /\ route_tasks' = IF kind = "" THEN route_tasks
                          ELSE Append(route_tasks, NewTask(kind, params))
        /\ UNCHANGED <<busy_vars, store, stage2_db, gen_vars, cache_impl, routing_cache, route_answers, cpu, shutdown, routing_db_engine>>

\* RoutingTask.routing_job starts: a message without caller is answered
\* unhandled and the job goes on into _calculate_stage1_routing, where it
\* awaits the database connection. acquire() of an engine that main has left
\* raises as the job starts, and the except branch answers
Stage1RoutingJob ==
    \E i \in DOMAIN route_tasks :
        \E answers_first \in {Get(route_tasks[i].message.params, Key("caller")) = None} :
        \E raise \in {routing_db_engine_acquire(routing_db_engine)} :
        \E failed \in {stage1_error_answer(route_tasks[i].message, raise, EmptyDict)} :
        /\ cpu = 0
        /\ route_tasks[i].kind = "stage1"
        /\ route_tasks[i].pc = "start"
        /\ route_tasks' = [route_tasks EXCEPT ![i] =
              IF raise = NoRaise
              THEN [@ EXCEPT !.pc = "acquire", !.attempts = @ + 1]
              ELSE [@ EXCEPT !.pc = "done", !.attempts = @ + 1, !.raise = raise,
                             !.message = failed.message]]
        /\ route_answers' = route_answers
              \o (IF answers_first THEN <<Answer(i, route_tasks[i].message, FALSE)>> ELSE <<>>)
              \o (IF raise = NoRaise THEN <<>>
                  ELSE <<Answer(i, failed.message, failed.handled)>>)
        /\ UNCHANGED <<busy_vars, store, stage2_db, gen_vars, cache_impl, routing_cache, route_count, cpu, shutdown, routing_db_engine>>

\* the job has its connection and calls _sanitize_caller: it awaits the
\* query of Extension.load_extension for the caller; on the internal listener
\* _sanitize_caller returns without a query, `caller.type` raises and the job
\* awaits the release of the connection
Stage1Acquire ==
    \E i \in DOMAIN route_tasks :
        \E internal \in {GetDefault(route_tasks[i].message.params, Key("connection_id"), <<>>)
                             = INTERNAL_YATE_LISTENER} :
        \E out \in {IF internal
                    THEN stage1_routing_tree(sanitize_caller(store, route_tasks[i].message.params,
                             Get(route_tasks[i].message.params, Key("caller"))))
                    ELSE [raise |-> NoRaise]} :
        /\ cpu = 0
        /\ route_tasks[i].kind = "stage1"
        /\ route_tasks[i].pc = "acquire"
        /\ route_tasks' = [route_tasks EXCEPT ![i] =
              IF internal THEN [@ EXCEPT !.pc = "release", !.raise = out.raise]
              ELSE [@ EXCEPT !.pc = "caller"]]
        /\ UNCHANGED <<busy_vars, store, stage2_db, gen_vars, cache_impl, routing_cache, route_answers, route_count, cpu, shutdown, routing_db_engine>>

\* the query for the caller is answered: _sanitize_caller returns or raises
\* noauth or forbidden; the job computes the caller parameters, makes the
\* RoutingTree and awaits discover_tree, or leaves the connection with what
\* was raised
Stage1SanitizeCaller ==
    \E i \in DOMAIN route_tasks :
        \E out \in {stage1_routing_tree(sanitize_caller(store, route_tasks[i].message.params,
                         Get(route_tasks[i].message.params, Key("caller"))))} :
        /\ cpu = 0
        /\ route_tasks[i].kind = "stage1"
        /\ route_tasks[i].pc = "caller"
        /\ route_tasks' = [route_tasks EXCEPT ![i] =
              [@ EXCEPT !.pc = IF out.raise = NoRaise THEN "discover" ELSE "release",
                        !.raise = out.raise,
                        !.caller = out.caller,
                        !.caller_params = out.caller_params]]
        /\ UNCHANGED <<busy_vars, store, stage2_db, gen_vars, cache_impl, routing_cache, route_answers, route_count, cpu, shutdown, routing_db_engine>>

\* the queries of discover_tree are answered (the store is only read): the
\* tree is discovered, or loading the target raised; the job leaves the
\* `async with` and awaits the release of the connection
Stage1DiscoverTree ==
    \E i \in DOMAIN route_tasks :
        /\ cpu = 0
        /\ route_tasks[i].kind = "stage1"
        /\ route_tasks[i].pc = "discover"
        /\ \E out \in {stage1_discover_tree(store, route_tasks[i].caller[1],
                             Get(route_tasks[i].message.params, Key("called")))} :
              route_tasks' = [route_tasks EXCEPT ![i] =
                  [@ EXCEPT !.pc = "release", !.raise = out.raise,
                            !.routing_tree = out.routing_tree]]
        /\ UNCHANGED <<busy_vars, store, stage2_db, gen_vars, cache_impl, routing_cache, route_answers, route_count, cpu, shutdown, routing_db_engine>>

\* the connection is released: what was raised inside the `async with` gets
\* to its except branch, which answers; else calculate_routing runs, and
\* what it raises is answered as well; a routing that succeeded goes on to
\* store_cache_infos
Stage1CalculateRouting ==
    \E i \in DOMAIN route_tasks :
        /\ cpu = 0
        /\ route_tasks[i].kind = "stage1"
        /\ route_tasks[i].pc = "release"
        /\ \E out \in {IF route_tasks[i].raise # NoRaise
                        THEN [raise |-> route_tasks[i].raise,
                              routing_result |-> route_tasks[i].routing_result,
                              routing_cache_entries |-> EmptyDict,
                              routing_tree |-> route_tasks[i].routing_tree]
                        ELSE stage1_calculate_routing(store, route_tasks[i].routing_tree[1],
                                 Get(route_tasks[i].message.params, Key("called")),
                                 route_tasks[i].caller_params, i)} :
           \E failed \in {stage1_error_answer(route_tasks[i].message, out.raise,
                                              route_tasks[i].caller_params)} :
              /\ route_tasks' = [route_tasks EXCEPT ![i] =
                    IF out.raise = NoRaise
                    THEN [@ EXCEPT !.pc = "store",
                                   !.routing_result = out.routing_result,
                                   !.routing_cache_entries = out.routing_cache_entries,
                                   !.routing_tree = out.routing_tree]
                    ELSE [@ EXCEPT !.pc = "done", !.raise = out.raise,
                                   !.message = failed.message,
                                   !.routing_tree = out.routing_tree]]
              /\ route_answers' = route_answers
                    \o (IF out.raise = NoRaise THEN <<>>
                        ELSE <<Answer(i, failed.message, failed.handled)>>)
        /\ UNCHANGED <<busy_vars, store, stage2_db, gen_vars, cache_impl, routing_cache, route_count, cpu, shutdown, routing_db_engine>>

\* await self._yate.store_cache_infos(routing_cache_entries); the in-memory
\* update does not suspend, the task runs on to its answer; the redis update
\* awaits one set per entry, so other tasks run before the job goes on, and
\* a set whose connection is gone raises into the except branch of
\* _calculate_stage1_routing, which answers error=failure. cached has the
\* names that were set
Stage1StoreCache ==
    \E i \in DOMAIN route_tasks :
        \E entries \in {route_tasks[i].routing_cache_entries} :
        \E key \in IF cache_impl = "PythonDictRoutingCache" \/ entries = EmptyDict
                   THEN {<<>>} ELSE DOMAIN entries \ route_tasks[i].cached :
        \E connection_lost \in IF key = <<>> THEN {FALSE} ELSE BOOLEAN :
        \E cached \in {IF key = <<>> THEN DOMAIN entries
                       ELSE route_tasks[i].cached \cup {key}} :
        \E failed \in {stage1_error_answer(route_tasks[i].message, ConnectionClosedError,
                                          route_tasks[i].caller_params)} :
        /\ cpu = 0
        /\ route_tasks[i].kind = "stage1"
        /\ route_tasks[i].pc = "store"
        /\ routing_cache' = IF cache_impl = "PythonDictRoutingCache"
                            THEN PythonDictRoutingCache_update(routing_cache, entries)
                            ELSE IF key = <<>> \/ connection_lost THEN routing_cache
                            ELSE RedisRoutingCache_set(routing_cache, key, entries[key])
        /\ route_tasks' = [route_tasks EXCEPT ![i] =
              IF connection_lost
              THEN [@ EXCEPT !.pc = "done", !.raise = ConnectionClosedError,
                             !.message = failed.message]
              ELSE [@ EXCEPT !.pc = IF cached = DOMAIN entries THEN "answer" ELSE "store",
                             !.cached = cached]]
        /\ route_answers' = route_answers
              \o (IF connection_lost
                  THEN <<Answer(i, failed.message, failed.handled)>> ELSE <<>>)
        /\ cpu' = IF key = <<>> THEN i ELSE 0
        /\ UNCHANGED <<busy_vars, store, stage2_db, gen_vars, cache_impl, route_count, shutdown, routing_db_engine>>

\* encode_routing_result and self._yate.answer_message(self._message, True):
\* at once after the in-memory update, on the reply to the last set of redis
Stage1Answer ==
    \E i \in DOMAIN route_tasks :
        LET message == encode_routing_result(route_tasks[i].message,
                                             route_tasks[i].routing_result) IN
        /\ cpu \in {0, i}
        /\ route_tasks[i].pc = "answer"
        /\ route_tasks' = [route_tasks EXCEPT ![i].pc = "done", ![i].message = message]
        /\ route_answers' = Append(route_answers, Answer(i, message, TRUE))
        /\ cpu' = 0
        /\ UNCHANGED <<busy_vars, store, stage2_db, gen_vars, cache_impl, routing_cache, route_count, shutdown, routing_db_engine>>

\* the steps of a Stage-1 job between its start and its answer
Stage1Job ==
    \/ Stage1RoutingJob
    \/ Stage1Acquire
    \/ Stage1SanitizeCaller
    \/ Stage1DiscoverTree
    \/ Stage1CalculateRouting
    \/ Stage1StoreCache
    \/ Stage1Answer

\* YateRoutingEngine._retrieve_from_cache_for starts: the retrieve of the
\* in-memory cache does not suspend and the message is answered at once; the
\* retrieve of the redis cache sends GET and awaits the reply
RetrieveFromCache ==
    \E i \in DOMAIN route_tasks :
        \E out \in {IF cache_impl = "PythonDictRoutingCache"
                    THEN retrieve_from_cache_for(route_tasks[i].message,
                             [raise |-> NoRaise,
                              result |-> PythonDictRoutingCache_retrieve(routing_cache,
                                  <<"lateroute/">>
                                      \o route_tasks[i].message.params[Key("called")])])
                    ELSE [raise |-> NoRaise, message |-> route_tasks[i].message]} :
        /\ cpu = 0
        /\ route_tasks[i].kind = "retrieve"
        /\ route_tasks[i].pc = "start"
        /\ route_tasks' = [route_tasks EXCEPT ![i] =
              IF cache_impl = "PythonDictRoutingCache"
              THEN [@ EXCEPT !.pc = "done", !.message = out.message, !.raise = out.raise]
              ELSE [@ EXCEPT !.pc = "get"]]
        /\ route_answers' = route_answers
              \o (IF cache_impl = "PythonDictRoutingCache"
                  THEN <<Answer(i, out.message, TRUE)>> ELSE <<>>)
        /\ UNCHANGED <<busy_vars, store, stage2_db, gen_vars, cache_impl, routing_cache, route_count, cpu, shutdown, routing_db_engine>>

\* redis executes the GET of a retrieve, await self._redis.get(target): the
\* reply has what the key holds at this moment, or the connection is gone
RedisGet ==
    \E i \in DOMAIN route_tasks :
        \E connection_lost \in BOOLEAN :
        /\ cpu = 0
        /\ route_tasks[i].kind = "retrieve"
        /\ route_tasks[i].pc = "get"
        /\ route_tasks' = [route_tasks EXCEPT ![i] =
              [@ EXCEPT !.pc = "reply",
                        !.retrieved = <<RedisRoutingCache_retrieve(routing_cache,
                            <<"lateroute/">> \o route_tasks[i].message.params[Key("called")],
                            connection_lost)>>]]
        /\ UNCHANGED <<busy_vars, store, stage2_db, gen_vars, cache_impl, routing_cache, route_answers, route_count, cpu, shutdown, routing_db_engine>>

\* the reply of redis is there and _retrieve_from_cache_for goes on: it
\* answers with what the reply had, or ends with the exception of the
\* retrieve, which it logs and raises again
RetrieveFromCacheAnswer ==
    \E i \in DOMAIN route_tasks :
        /\ cpu = 0
        /\ route_tasks[i].kind = "retrieve"
        /\ route_tasks[i].pc = "reply"
        /\ \E out \in {retrieve_from_cache_for(route_tasks[i].message,
                                                route_tasks[i].retrieved[1])} :
              /\ route_tasks' = [route_tasks EXCEPT ![i].pc = "done",
                                                    ![i].message = out.message,
                                                    ![i].raise = out.raise]
              /\ route_answers' = route_answers
                    \o (IF out.raise = NoRaise THEN <<Answer(i, out.message, TRUE)>>
                        ELSE <<>>)
        /\ UNCHANGED <<busy_vars, store, stage2_db, gen_vars, cache_impl, routing_cache, route_count, cpu, shutdown, routing_db_engine>>

\* the steps of a cache retrieval
Retrieve == RetrieveFromCache \/ RedisGet \/ RetrieveFromCacheAnswer

RouteNext == CallRoute \/ Stage1Job \/ RetrieveFromCache

SpecStage1 == RouteInit /\ [][RouteNext]_vars

-----------------------------------------------------------------------------
(* Stage-1 replies and the routing cache: claims                           *)

\* the answers of Stage-1 tasks / of cache retrieval tasks, by position
Stage1Answers == {p \in DOMAIN route_answers : route_tasks[route_answers[p].task].kind = "stage1"}
RetrieveAnswers ==
    {p \in DOMAIN route_answers : route_tasks[route_answers[p].task].kind = "retrieve"}

\* the parameter names callto.<i> of a message, and the deferred-route names
\* among their values
CalltoNames(message) ==
    {k \in DOMAIN message.params : k[1] = "callto." /\ "." \notin Range(k)}
IsDeferredRoute(target) == StartsWith(target, <<"lateroute/", "stage1-">>)
DeferredLegs(message) ==
    {message.params[k] : k \in {n \in CalltoNames(message) :
                                   IsDeferredRoute(message.params[n])}}
IsForkReply(answer) == answer.handled /\ answer.message.return_value = <<"fork">>

\* C3 as stated: when a Stage-1 task sends a Fork reply, every callto.<i> of
\* the reply that is a deferred-route name is a key of the routing cache
\* already in the state in which the answer is sent, and every reply sent so
\* far has its deferred-route names in the cache.
C3_CachedBeforeAnswer ==
    [][\A i \in DOMAIN route_tasks :
          (route_tasks[i].kind = "stage1" /\ route_tasks[i].pc = "answer"
           /\ route_tasks'[i].pc = "done")
          => /\ DeferredLegs(route_tasks'[i].message) \subseteq DOMAIN routing_cache
             /\ \A p \in Stage1Answers' :
                   IsForkReply(route_answers'[p])
                   => DeferredLegs(route_answers'[p].message) \subseteq DOMAIN routing_cache']_vars

\* what the routing cache holds for a plan: the plan, or in redis its JSON text
Held(impl, plan) == IF impl = "PythonDictRoutingCache" THEN plan ELSE serialize(plan)
HeldFor(impl, cache, name) ==
    IF impl = "PythonDictRoutingCache" THEN cache[name] ELSE cache[name].document

\* every deferred-route name of a Fork reply was set in the routing cache by
\* the task of the reply before it answered
SetBeforeAnswer ==
    \A p \in Stage1Answers :
        IsForkReply(route_answers[p])
        => DeferredLegs(route_answers[p].message)
              \subseteq route_tasks[route_answers[p].task].cached

\* a step in which a task has set names leaves each of them in the routing
\* cache with the plan the task made for it and, in redis, with the whole
\* object lifetime
SetStores ==
    \A i \in DOMAIN route_tasks :
    \A name \in route_tasks'[i].cached \ route_tasks[i].cached :
        /\ name \in DOMAIN routing_cache'
        /\ HeldFor(cache_impl, routing_cache', name)
              = Held(cache_impl, route_tasks[i].routing_cache_entries[name])
        /\ cache_impl = "RedisRoutingCache" => routing_cache'[name].expire = object_lifetime

\* a key of the in-memory cache stays; a key of redis stays with the lifetime
\* it has, is set again, or time passes: the key has that much less to live,
\* and is gone only if it had no more than that
LeavesWhenExpired ==
    \A name \in DOMAIN routing_cache :
        IF cache_impl = "PythonDictRoutingCache" THEN name \in DOMAIN routing_cache'
        ELSE \/ /\ name \in DOMAIN routing_cache'
                /\ routing_cache'[name].expire \in {routing_cache[name].expire, object_lifetime}
             \/ \E seconds \in 1 .. object_lifetime :
                   IF name \in DOMAIN routing_cache'
                   THEN routing_cache'[name].expire = routing_cache[name].expire - seconds
                   ELSE routing_cache[name].expire <= seconds

\* C3: for every successful Stage-1 reply that is a Fork, each callto.<i>
\* that is a deferred-route name was set in the routing cache before the
\* reply was sent: the cache update of all sub-plans happens before the
\* answer, in every execution. The name is a key of the cache when the reply
\* is sent unless its lifetime has run out since: a key of redis is set with
\* object_lifetime seconds to live and leaves the cache only when they have
\* passed; a key of the in-memory cache, which has no lifetime, never leaves.
C3_CachedBeforeAnswerWithinLifetime ==
    /\ [](SetBeforeAnswer)
    /\ [](cache_impl = "PythonDictRoutingCache" =>
             \A p \in Stage1Answers :
                 IsForkReply(route_answers[p])
                 => DeferredLegs(route_answers[p].message) \subseteq DOMAIN routing_cache)
    /\ [][SetStores /\ LeavesWhenExpired]_vars

\* a Fork reply with deferred legs was sent by a task that set each of them
\* in redis, and they are keys with less than their whole lifetime left
C3_Witness ==
    \E p \in Stage1Answers :
        /\ cache_impl = "RedisRoutingCache"
        /\ IsForkReply(route_answers[p])
        /\ DeferredLegs(route_answers[p].message) # {}
        /\ DeferredLegs(route_answers[p].message) \subseteq DOMAIN routing_cache
        /\ \A name \in DeferredLegs(route_answers[p].message) :
               routing_cache[name].expire < object_lifetime

\* the message carries exactly the legs of plan, in order, with the
\* parameters of each leg (a leg parameter equal to the plan's own is not
\* repeated on the leg), and the plan's own parameters
EncodesPlan(message, plan) ==
    LET effective(i, key) ==
            IF callto_key(i, key) \in DOMAIN message.params
            THEN message.params[callto_key(i, key)]
            ELSE Get(message.params, Key(key))
    IN /\ message.return_value = <<"fork">>
       /\ CalltoNames(message) = {callto(i) : i \in DOMAIN plan.fork_targets}
       /\ \A i \in DOMAIN plan.fork_targets :
             /\ message.params[callto(i)] = plan.fork_targets[i].target
             /\ \A key \in DOMAIN plan.fork_targets[i].parameters :
                   effective(i, key) = plan.fork_targets[i].parameters[key]
       /\ \A k \in DOMAIN message.params :
             (k[1] = "callto." /\ "." \in Range(k))
             => \E i \in DOMAIN plan.fork_targets :
                   \E key \in DOMAIN plan.fork_targets[i].parameters : k = callto_key(i, key)
       /\ \A key \in DOMAIN plan.target.parameters :
             Get(message.params, Key(key)) = plan.target.parameters[key]

\* the re-entries on a deferred leg of an earlier Stage-1 Fork reply: the
\* positions <<p, q, name>> of the reply, the re-entry's answer and the leg
ReEntries ==
    {x \in (Stage1Answers \X RetrieveAnswers) \X UNION {DeferredLegs(route_answers[p].message) :
                                                          p \in Stage1Answers} :
        /\ x[1][1] < x[1][2]
        /\ IsForkReply(route_answers[x[1][1]])
        /\ x[2] \in DeferredLegs(route_answers[x[1][1]].message)
        /\ Get(route_tasks[route_answers[x[1][2]].task].request, Key("called"))
              = SubSeq(x[2], 2, Len(x[2]))}

\* the plans that Stage-1 tasks stored for the name of a deferred leg of a
\* Fork reply they have sent
StoredPlans(name) ==
    {route_tasks[route_answers[p].task].routing_cache_entries[name] :
        p \in {q \in Stage1Answers :
                  /\ IsForkReply(route_answers[q])
                  /\ name \in DeferredLegs(route_answers[q].message)}}

\* the name of the deferred leg that the task re-enters on
ReEntryName(task) == <<"lateroute/">> \o Get(task.request, Key("called"))

\* task j is answered handled with the plan
AnsweredWithPlan(j, plan) ==
    \E p \in DOMAIN route_answers :
        /\ route_answers[p].task = j
        /\ route_answers[p].handled
        /\ EncodesPlan(route_answers[p].message, plan)

\* the cache retrieval of task j reads the routing cache in this step, for a
\* deferred leg of a Fork reply sent before, whose key is in the cache
ReEntryReads(j) ==
    /\ route_tasks[j].kind = "retrieve"
    /\ route_tasks[j].pc \in {"start", "get"}
    /\ route_tasks'[j].pc \in {"done", "reply"}
    /\ StoredPlans(ReEntryName(route_tasks[j])) # {}
    /\ ReEntryName(route_tasks[j]) \in DOMAIN routing_cache

\* C4: a re-entry whose called is the name of a deferred leg of an earlier
\* Stage-1 Fork reply, without the lateroute/ prefix, is answered handled with
\* the sub-plan that this Stage-1 task stored for the leg: the same legs in
\* the same order with the same parameters. Read for a key that is in the
\* cache when the retrieve reads it: the retrieve gets a plan with the legs
\* and parameters of the stored one, and a retrieval that has ended is
\* answered handled with the plan it got.
C4_ReEntryGivesCachedPlan ==
    /\ [][\A j \in DOMAIN route_tasks :
             ReEntryReads(j) =>
                 \A plan \in StoredPlans(ReEntryName(route_tasks[j])) :
                     IF route_tasks'[j].pc = "done" THEN AnsweredWithPlan(j, plan)'
                     ELSE /\ route_tasks'[j].retrieved[1].raise = NoRaise
                          /\ route_tasks'[j].retrieved[1].result # <<>>
                          /\ EncodesPlan(encode_routing_result(route_tasks[j].message,
                                              route_tasks'[j].retrieved[1].result[1]),
                                         plan)]_vars
    /\ [](\A j \in DOMAIN route_tasks :
             (/\ route_tasks[j].kind = "retrieve"
              /\ route_tasks[j].pc = "done"
              /\ route_tasks[j].retrieved # <<>>
              /\ route_tasks[j].retrieved[1].raise = NoRaise
              /\ route_tasks[j].retrieved[1].result # <<>>)
             => \E p \in DOMAIN route_answers :
                   /\ route_answers[p].task = j
                   /\ route_answers[p].handled
                   /\ route_answers[p].message
                         = encode_routing_result(Message(route_tasks[j].request),
                                                 route_tasks[j].retrieved[1].result[1]))

\* a re-entry on a deferred leg of a Fork reply was answered with the plan
\* stored for the leg
C4_Witness ==
    \E j \in DOMAIN route_tasks :
        /\ route_tasks[j].kind = "retrieve"
        /\ route_tasks[j].pc = "done"
        /\ \E plan \in StoredPlans(ReEntryName(route_tasks[j])) : AnsweredWithPlan(j, plan)

\* what a Stage-1 answer says of the request of its task
Request(p) == route_tasks[route_answers[p].task].request
ErrorOf(p) == Get(route_answers[p].message.params, Key("error"))
NoCallTargetIn(message) ==
    /\ message.return_value = None
    /\ \A k \in DOMAIN message.params : k[1] # "callto."
FromStoredCaller(p) ==
    /\ GetDefault(Request(p), Key("connection_id"), <<>>) # INTERNAL_YATE_LISTENER
    /\ Get(Request(p), Key("caller")) # None
    /\ load_extension(store, Get(Request(p), Key("caller"))) # <<>>

\* C5: for a request from outside the internal listener whose caller is in the
\* store, Stage-1 answers handled with error=noauth and no call target when
\* there is no username, handled with error=forbidden and no call target when
\* the username is not the caller, and routes the call (here to 2004 on its
\* switch) when the username is the caller.
C5_CallerAuthentication ==
    \A p \in Stage1Answers :
        FromStoredCaller(p) =>
            IF Get(Request(p), Key("username")) = None
            THEN /\ route_answers[p].handled
                 /\ ErrorOf(p) = <<"noauth">>
                 /\ NoCallTargetIn(route_answers[p].message)
            ELSE IF Get(Request(p), Key("username")) # Get(Request(p), Key("caller"))
            THEN /\ route_answers[p].handled
                 /\ ErrorOf(p) = <<"forbidden">>
                 /\ NoCallTargetIn(route_answers[p].message)
            ELSE /\ ErrorOf(p) \notin {<<"noauth">>, <<"forbidden">>}
                 /\ Get(Request(p), Key("called")) = N2004
                    => /\ route_answers[p].handled
                       /\ route_answers[p].message.return_value
                             = <<"sip/sip:">> \o N2004 \o <<"@", "dect">>

\* the same call from 2001 to 2004 was refused without username and routed
\* with it
C5_Witness ==
    \E p, q \in Stage1Answers :
        /\ FromStoredCaller(p) /\ FromStoredCaller(q)
        /\ Get(Request(p), Key("called")) = N2004 /\ Get(Request(q), Key("called")) = N2004
        /\ ErrorOf(p) = <<"noauth">>
        /\ Get(Request(q), Key("username")) = Get(Request(q), Key("caller"))
        /\ route_answers[q].message.return_value # None

\* the Stage-1 answers of tasks whose routing raised RoutingError(code)
RaisedAnswers(code) ==
    {p \in Stage1Answers :
        /\ route_tasks[route_answers[p].task].raise = RoutingError(code)
        /\ Get(Request(p), Key("caller")) # None}

\* the caller parameters of the request's source extension
SourceParameters(p) ==
    LET found == load_extension(store, Get(Request(p), Key("caller"))) IN
    IF found # <<>> THEN calculate_source_parameters(found[1]) ELSE EmptyDict

\* C6: a Stage-1 task that ends with noroute answers its message unhandled,
\* without an error parameter, and with the caller parameters of the source
\* extension merged into the message.
C6_NoRouteUnhandledWithCallerParams ==
    \A p \in RaisedAnswers("noroute") :
        /\ ~route_answers[p].handled
        /\ Key("error") \notin DOMAIN route_answers[p].message.params
        /\ route_answers[p].message.return_value = None
        /\ \A key \in DOMAIN SourceParameters(p) :
              Get(route_answers[p].message.params, Key(key)) = SourceParameters(p)[key]

\* noroute was answered for an unknown number and for a group without
\* members, each with caller parameters
C6_Witness ==
    \E p, q \in RaisedAnswers("noroute") :
        /\ Get(Request(p), Key("called")) = N4747
        /\ Get(Request(q), Key("called")) = N4000
        /\ Get(route_answers[p].message.params, Key("osip_X-Dialout-Allowed")) = <<"1">>
        /\ Get(route_answers[q].message.params, Key("caller")) = <<"9", "9", "9", "0">>

\* C7: a RoutingError raised in Stage-1 with a code other than noroute
\* (noauth, forbidden, failure) is answered handled, with error=<code> on the
\* message and without return value.
C7_RoutingErrorHandled ==
    \A code \in {"noauth", "forbidden", "failure"} :
        \A p \in RaisedAnswers(code) :
            /\ route_answers[p].handled
            /\ ErrorOf(p) = <<code>>
            /\ route_answers[p].message.return_value = None

\* a failure (a trunk without switch) and a forbidden were answered
C7_Witness ==
    /\ RaisedAnswers("failure") # {}
    /\ RaisedAnswers("forbidden") # {}

-----------------------------------------------------------------------------
(* Discovery and generation: claims                                        *)

\* the calls of _visit that the discovery made
DiscoveryCalls == IF discovery = <<>> THEN {} ELSE discovery[1].visitor.calls

\* the nodes the discovery left to follow below a node: the forward of a node
\* whose forwarding is not disabled, and the members still active
Followed(node) ==
    (IF node.forwarding_mode # "DISABLED" /\ node.forwarding_extension # <<>>
     THEN {node.forwarding_extension[1]} ELSE {})
    \cup UNION {{node.fork_ranks[i].members[j].extension :
                    j \in {k \in DOMAIN node.fork_ranks[i].members :
                              node.fork_ranks[i].members[k].active}} :
                   i \in DOMAIN node.fork_ranks}

\* the numbers along every way down from a node in the discovered graph
RECURSIVE PathsFrom(_)
PathsFrom(node) ==
    {<<node.row.extension>>}
    \cup UNION {{<<node.row.extension>> \o p : p \in PathsFrom(child)} :
                   child \in Followed(node)}

NoRepeat(path) == \A i, j \in DOMAIN path : path[i] = path[j] => i = j

\* C8: discovery never calls _visit below the root for an extension whose
\* number is on the path it was given (the caller's number included), expands
\* no node at depth >= max_depth, and leaves a graph of depth <= max_depth in
\* which no number repeats along a way down from the root.
C8_DiscoveryBounded ==
    /\ \A c \in DiscoveryCalls :
          /\ c.depth > 0 => c.extension \notin Range(c.path)
          /\ c.expanded => c.depth < max_depth
          /\ c.depth <= max_depth
    /\ discovery # <<>> =>
          \A p \in PathsFrom(discovery[1].visitor.node) :
              /\ NoRepeat(p)
              /\ Len(p) <= max_depth + 1
              /\ discovery[1].source.row.extension \notin Range(SubSeq(p, 2, Len(p)))

\* a discovery that cut a cycle and stopped at the depth limit
C8_Witness ==
    /\ discovery # <<>>
    /\ discovery[1].visitor.pruned
    /\ discovery[1].visitor.failed
    /\ \E c \in DiscoveryCalls : c.depth = max_depth /\ ~c.expanded
    /\ \E p \in PathsFrom(discovery[1].visitor.node) : Len(p) = max_depth + 1

\* C9: in every Fork the generator emits no two consecutive entries of the
\* leg list are both separators.
C9_NoConsecutiveSeparators ==
    \A fork \in EmittedForks :
        \A i \in 1 .. Len(fork.fork_targets) - 1 :
            ~(is_separator(fork.fork_targets[i]) /\ is_separator(fork.fork_targets[i + 1]))

\* C10: in every Fork the generator emits the last entry of the leg list is a
\* call target that can be dialed: not a separator and not an absent target.
C10_LastEntryDialable ==
    \A fork \in EmittedForks :
        /\ fork.fork_targets[Len(fork.fork_targets)] # NoCallTarget
        /\ ~is_separator(fork.fork_targets[Len(fork.fork_targets)])

-----------------------------------------------------------------------------
(* The identifier of a routing request: claims                             *)

\* the Stage-1 tasks whose routing produced a result
RoutedTasks ==
    {i \in DOMAIN route_tasks :
        /\ route_tasks[i].kind = "stage1"
        /\ route_tasks[i].raise = NoRaise
        /\ route_tasks[i].pc \in {"store", "answer", "done"}}

\* the call targets of a plan, and of the result and the cached sub-plans of
\* a routing request
PlanTargets(plan) == {plan.target} \cup Range(plan.fork_targets)
RequestTargets(i) ==
    PlanTargets(route_tasks[i].routing_result)
    \cup UNION {PlanTargets(route_tasks[i].routing_cache_entries[name]) :
                   name \in DOMAIN route_tasks[i].routing_cache_entries}
CarriesId(call_target, id) ==
    /\ Get(call_target.parameters, "x_eventphone_id") = id
    /\ Get(call_target.parameters, "osip_X-Eventphone-Id") = id

\* C11: every call target of a Stage-1 routing result that is not a separator
\* (the envelope, every leg, the ringback leg, the envelope and legs of every
\* cached sub-plan) carries x_eventphone_id and osip_X-Eventphone-Id, both
\* with the one identifier of the request; a separator carries neither.
C11_EventphoneIdOnEveryTarget ==
    \A i \in RoutedTasks :
        \A call_target \in RequestTargets(i) :
            IF is_separator(call_target)
            THEN {"x_eventphone_id", "osip_X-Eventphone-Id"}
                     \cap DOMAIN call_target.parameters = {}
            ELSE CarriesId(call_target, uuid4_hex(i))

-----------------------------------------------------------------------------
(* The time-based forward: claims                                          *)

\* the generation of the root node of the discovered tree, when it made a
\* Fork of its own
RootForks ==
    IF generation = <<>> \/ generation[1].raise # NoRaise THEN {}
    ELSE {r \in {generation[1].routing_result} :
             r.type = "FORK" /\ r.target.oid = discovery[1].visitor.node.tree_identifier}

\* what the ranks of a node leave of its forwarding mode
ForwardingModeAfterRanks(node) ==
    RankLoop(GenerationContext(1), node, 1, <<node.row.id>>,
             [fork_targets |-> <<>>, accumulated_delay |-> 0,
              forwarding_mode |-> node.forwarding_mode,
              fork_ranks |-> node.fork_ranks, rank |-> 0,
              cache |-> EmptyDict, raise |-> NoRaise]).forwarding_mode

\* the delay of a |drop=<d> separator, and the sum over the first n legs
IsDrop(call_target) == StartsWith(call_target.target, <<"|", "drop=">>)
DropDelay(call_target) ==
    CHOOSE d \in -99 .. 99 : Str(d) = SubSeq(call_target.target, 3, Len(call_target.target))
RECURSIVE SumOfDrops(_, _)
SumOfDrops(legs, n) ==
    IF n = 0 THEN 0
    ELSE SumOfDrops(legs, n - 1) + (IF IsDrop(legs[n]) THEN DropDelay(legs[n]) ELSE 0)

\* C12: in the Fork of a node with forwarding mode ENABLED and a positive
\* forwarding_delay, whose forward the ranks did not disable, the delays of
\* the |drop=<d> separators in front of the forward target (the last leg) add
\* up to forwarding_delay.
C12_DropsAddUpToForwardingDelay ==
    \A fork \in RootForks :
        LET node == discovery[1].visitor.node IN
        (/\ node.row.forwarding_mode = "ENABLED"
         /\ node.row.forwarding_delay > 0
         /\ ForwardingModeAfterRanks(node) = "ENABLED")
        => SumOfDrops(fork.fork_targets, Len(fork.fork_targets) - 1)
              = node.row.forwarding_delay

-----------------------------------------------------------------------------
(* Serialized routing results: claims                                      *)

\* every result calculate_routing produced: the root's, of any variant, and
\* the cached ones
GeneratedResults ==
    IF generation = <<>> THEN {}
    ELSE {generation[1].routing_result}
         \cup {generation[1].new_routing_cache_content[name] :
                  name \in DOMAIN generation[1].new_routing_cache_content}

\* the value of a result: its variant, envelope and legs without the
\* identity of the objects
ValueOf(result) ==
    [type |-> result.type,
     target |-> [result.target EXCEPT !.oid = <<>>],
     fork_targets |-> [i \in DOMAIN result.fork_targets |->
                          [result.fork_targets[i] EXCEPT !.oid = <<>>]]]

\* C13: deserialize(serialize(r)) of a routing result r of any variant
\* (Simple, Fork, NoRoute) is a result of the same variant with the same
\* envelope target, the same parameters and the same ordered leg list.
C13_SerializeRoundTrip ==
    \A r \in GeneratedResults :
        /\ deserialize(serialize(r)).raise = NoRaise
        /\ ValueOf(deserialize(serialize(r)).result) = ValueOf(r)

-----------------------------------------------------------------------------
(* call.cdr events and their tasks: claims                                 *)

\* the event changes a counter when its task runs
UpdatesCounter(params) ==
    /\ Get(params, "external") # None
    /\ "operation" \in DOMAIN params
    /\ params["operation"] \in {S_initialize, S_finalize}

\* this step is the run of the task at position i
TaskRan(i) ==
    /\ i \in DOMAIN cdr_tasks
    /\ cdr_tasks' = RemoveAt(cdr_tasks, i)
    /\ busy_cache' = handle_msg_task(busy_impl, busy_cache, cdr_tasks[i])
CounterChanged ==
    \E e \in CdrExtensions : Counter(busy_cache', e) # Counter(busy_cache, e)
\* this step is a flush of the cache
Flushed ==
    /\ cdr_tasks' = cdr_tasks
    /\ busy_cache' = flush(busy_impl, busy_cache)

\* C14: the handler answers every call.cdr event unhandled in the step in
\* which the event arrives, leaving the counters as they are and the update
\* to a task that has not run; unless the cache is flushed, a counter only
\* changes by the run of such a task, when every event that arrived has its
\* answer.
C14_AcknowledgedBeforeUpdate ==
    [][/\ cdr_count' # cdr_count =>
            /\ Len(cdr_answers') = cdr_count'
            /\ cdr_answers'[cdr_count'] # <<>>
            /\ \A k \in DOMAIN cdr_answers'[cdr_count'] : ~cdr_answers'[cdr_count'][k]
            /\ ~CounterChanged
            /\ Len(cdr_tasks') = Len(cdr_tasks) + 1
       /\ CounterChanged /\ ~Flushed =>
            /\ \E i \in DOMAIN cdr_tasks : TaskRan(i)
            /\ cdr_answers' = cdr_answers
            /\ Len(cdr_answers) = cdr_count]_vars

\* the first event was answered and then counted; the second is answered
\* and its update has not run
C14_Witness ==
    /\ cdr_answers = << <<FALSE>>, <<FALSE>> >>
    /\ Counter(busy_cache, N2042) = 1
    /\ Len(cdr_tasks) = 1
    /\ UpdatesCounter(cdr_tasks[1])

\* C15: the updates of two events for the same extension take effect in the
\* order in which the events arrived (no task runs while an earlier event for
\* its extension waits), in both variants, and when every task has run the
\* counters are those of applying the events one by one in arrival order.
C15_UpdatesInArrivalOrder ==
    /\ [][Len(cdr_tasks') < Len(cdr_tasks) =>
            \E i \in DOMAIN cdr_tasks :
                /\ TaskRan(i)
                /\ UpdatesCounter(cdr_tasks[i]) =>
                     \A j \in 1 .. i - 1 :
                        ~(/\ UpdatesCounter(cdr_tasks[j])
                          /\ cdr_tasks[j]["external"] = cdr_tasks[i]["external"])]_vars
    /\ [](cdr_tasks = <<>> =>
            \A e \in CdrExtensions : Counter(busy_cache, e) = Counter(cdr_sequential, e))

\* C16: the run of the task of an event for one extension leaves the counter
\* and the is_busy result of every other extension as they were, and an
\* extension none of whose initialize events was applied is not busy.
C16_OtherExtensionsUntouched ==
    [][/\ \A i \in DOMAIN cdr_tasks :
             TaskRan(i) /\ Len(cdr_tasks') < Len(cdr_tasks) =>
                \A e \in CdrExtensions \ {Get(cdr_tasks[i], "external")} :
                    /\ Counter(busy_cache', e) = Counter(busy_cache, e)
                    /\ is_busy(busy_impl, busy_cache', e) = is_busy(busy_impl, busy_cache, e)
       /\ \A e \in CdrExtensions :
             LogOf(cdr_log', e).inits = 0 => ~is_busy(busy_impl, busy_cache', e)]_vars

\* 2024 was asked while 2042 was busy, and was free
C16_Witness ==
    /\ is_busy(busy_impl, busy_cache, N2042)
    /\ LogOf(cdr_log, N2024).inits = 0
    /\ last_query = <<"is_busy", N2024, FALSE>>

-----------------------------------------------------------------------------
(* Stage 2: ywsd/stage2.py and the users, registrations and active_calls   *)
(* tables of ywsd/objects.py                                               *)

\* a row of the users table (FIELDS_PLAIN without displayname and password)
UserRow(username, type, trunk, call_waiting, inuse) ==
    [username |-> username, type |-> type, trunk |-> trunk,
     call_waiting |-> call_waiting, inuse |-> inuse]

\* a row of the registrations table
RegistrationRow(username, location, oconnection_id) ==
    [username |-> username, location |-> location, oconnection_id |-> oconnection_id]

\* a row of the active_calls table
ActiveCallRow(username, x_eventphone_id) ==
    [username |-> username, x_eventphone_id |-> x_eventphone_id]

\* User.load_user: <<>> stands for DoesNotExist (username is the primary key)
load_user(db, username) ==
    LET rows == {u \in db.users : u.username = username} IN
    IF rows = {} THEN <<>> ELSE <<CHOOSE u \in rows : TRUE>>

\* User.load_trunk: the trunk whose username is a prefix of the dialed number;
\* none or more than one is DoesNotExist
load_trunk(db, dialed_number) ==
    LET rows == {u \in db.users : StartsWith(dialed_number, u.username) /\ u.trunk} IN
    IF Cardinality(rows) # 1 THEN <<>> ELSE <<CHOOSE u \in rows : TRUE>>

\* str.replace(old, new, 1)
RECURSIVE ReplaceFirst(_, _, _)
ReplaceFirst(s, old, new) ==
    IF Len(s) < Len(old) THEN s
    ELSE IF StartsWith(s, old) THEN new \o SubSeq(s, Len(old) + 1, Len(s))
    ELSE <<Head(s)>> \o ReplaceFirst(Tail(s), old, new)

\* Registration.call_target
call_target(row, user, dialed_number) ==
    IF user.trunk = FALSE THEN row.location
    ELSE ReplaceFirst(row.location, user.username \o <<"@">>, dialed_number \o <<"@">>)

\* Registration.load_locations_for: the rows of the user, each with its
\* call_target for the dialed number
SelectRegistrations(rows, username) ==
    SelectSeq(rows, LAMBDA row : row.username = username)
load_locations_for_all(db, user, dialed_number) ==
    [i \in DOMAIN db.registrations |->
        [call_target |-> call_target(db.registrations[i], user, dialed_number),
         oconnection_id |-> db.registrations[i].oconnection_id]]
load_locations_for(db, user, dialed_number) ==
    LET rows == SelectRegistrations(db.registrations, user.username) IN
    [i \in DOMAIN rows |->
        [call_target |-> call_target(rows[i], user, dialed_number),
         oconnection_id |-> rows[i].oconnection_id]]

\* ActiveCall.is_active_call
is_active_call(db, username, x_eventphone_id) ==
    Cardinality({row \in db.active_calls :
                    row.username = username /\ row.x_eventphone_id = x_eventphone_id}) > 0

\* HEADER_NAMES and str.lower() of each
HEADER_NAMES == <<"X-Eventphone-Id", "X-No-Call-Wait">>
lower(header) ==
    IF header = "X-Eventphone-Id" THEN "x-eventphone-id" ELSE "x-no-call-wait"

\* get_headers: osip_<Header>, else sip_<header>, else None
get_headers(msg) ==
    [header \in Range(HEADER_NAMES) |->
        IF Get(msg.params, <<"osip_", header>>) # None
        THEN msg.params[<<"osip_", header>>]
        ELSE Get(msg.params, <<"sip_", lower(header)>>)]

\* RoutingTask.populate_additional_message_parameters
populate_additional_message_parameters(msg, headers) ==
    LET with_id == SetItem(msg.params, Key("X-Eventphone-Id"), headers["X-Eventphone-Id"]) IN
    [msg EXCEPT !.params =
        SetItem(with_id, Key("copyparams"),
                IF Key("copyparams") \in DOMAIN with_id
                THEN with_id[Key("copyparams")] \o <<",", "X-Eventphone-Id">>
                ELSE <<"X-Eventphone-Id">>)]

\* RoutingTask._check_target_busy: the busy cache if one is configured, else
\* the inuse column
check_target_busy_inuse(impl, cache, target) == target.inuse > 0
check_target_busy(impl, cache, target) ==
    IF impl # "None" THEN is_busy(impl, cache, target.username)
    ELSE target.inuse > 0

\* the condition under which _calculate_stage2_routing asks _check_target_busy
AsksBusy(headers, target) ==
    headers["X-No-Call-Wait"] = <<"1">> \/ ~target.call_waiting

\* the return value and the callto parameters for the locations
Stage2Targets(msg, locations) ==
    IF Len(locations) = 1
    THEN [return_value |-> locations[1].call_target,
          params |-> SetItem(msg.params, Key("oconnection_id"), locations[1].oconnection_id)]
    ELSE [return_value |-> <<"fork">>,
          params |-> Update(msg.params,
              [k \in {callto(i) : i \in DOMAIN locations}
                     \cup {callto_key(i, "oconnection_id") : i \in DOMAIN locations} |->
                  LET i == CHOOSE j \in DOMAIN locations :
                               k \in {callto(j), callto_key(j, "oconnection_id")} IN
                  IF k = callto(i) THEN locations[i].call_target
                  ELSE locations[i].oconnection_id])]

\* what _calculate_stage2_routing leaves behind: the exception or the pair it
\* returns, the message, and the is_busy call it made, <<>> for none
Stage2Out(raise, msg, success, handled, asked) ==
    [raise |-> raise, message |-> msg, success |-> success, handled |-> handled,
     asked |-> asked]

\* the is_busy call of _check_target_busy and what it returned
Asked(impl, cache, headers, target) ==
    IF AsksBusy(headers, target) /\ impl # "None"
    THEN <<[extension |-> target.username,
            busy |-> is_busy(impl, cache, target.username)]>>
    ELSE <<>>

WithError(msg, error) == [msg EXCEPT !.params = SetItem(@, Key("error"), error)]

\* RoutingTask._static_target_routing: a User has no attribute static_target
static_target_routing(msg, target) ==
    Stage2Out(AttributeError, msg, FALSE, FALSE, <<>>)

\* RoutingTask._calculate_stage2_routing: the message as it leaves it, what it
\* returns, and whether it asked the busy cache
calculate_stage2_routing(db, impl, cache, msg, caller, called_param) ==
    LET called == IF StartsWith(called_param, <<"stage2-">>)
                  THEN SubSeq(called_param, 2, Len(called_param)) ELSE called_param
        user == load_user(db, called)
        found == IF user # <<>> THEN user ELSE load_trunk(db, called) IN
    IF found = <<>> THEN Stage2Out(NoRaise, msg, FALSE, FALSE, <<>>)
    ELSE LET Routing(target, locations, headers) ==
                 IF target.type = <<"static">> THEN static_target_routing(msg, target)
                 ELSE IF locations = <<>>
                 THEN Stage2Out(NoRaise,
                                [msg EXCEPT !.params =
                                    SetItem(SetItem(@, Key("error"), <<"offline">>),
                                            Key("reason"), <<"offline">>)],
                                FALSE, TRUE, <<>>)
                 ELSE IF AsksBusy(headers, target) /\ check_target_busy(impl, cache, target)
                 THEN Stage2Out(NoRaise, WithError(msg, <<"busy">>), FALSE, TRUE,
                                Asked(impl, cache, headers, target))
                 ELSE IF is_active_call(db, called, headers["X-Eventphone-Id"])
                 THEN Stage2Out(NoRaise, WithError(msg, <<"busy">>), FALSE, TRUE,
                                Asked(impl, cache, headers, target))
                 ELSE LET out == Stage2Targets(msg, locations) IN
                      Stage2Out(NoRaise,
                                populate_additional_message_parameters(
                                    [params |-> out.params,
                                     return_value |-> out.return_value], headers),
                                TRUE, TRUE, Asked(impl, cache, headers, target))
         IN Routing(found[1], load_locations_for(db, found[1], called), get_headers(msg))

-----------------------------------------------------------------------------
(* Stage 2: the database contents, the messages and the task               *)

N77 == <<"7", "7">>
N7755 == <<"7", "7", "5", "5">>
N2099 == <<"2", "0", "9", "9">>
S_user == <<"user">>
S_static == <<"static">>
ID1 == <<"id1">>
ID2 == <<"id2">>

Location(user, host) == <<"sip/sip:">> \o user \o <<"@", host>>

\* the rows every database of the runs has: the trunk 77 with one
\* registration, the static user 2099, and an active call of 2042 with id1
CommonUsers ==
    { UserRow(N77, S_user, TRUE, TRUE, 0), UserRow(N2099, S_static, FALSE, TRUE, 0) }
TrunkRegistrations == <<RegistrationRow(N77, Location(N77, "10.0.0.9"), <<"trunk-listener">>)>>
CommonCalls == { ActiveCallRow(N2042, ID1) }

Stage2Db(users, registrations) ==
    [users |-> users \cup CommonUsers,
     registrations |-> registrations \o TrunkRegistrations,
     active_calls |-> CommonCalls]

\* the databases of the runs: 2042 without call waiting and one registration;
\* 2042 with call waiting and two registrations; 2042 without registration
DbNoCallWaiting ==
    Stage2Db({UserRow(N2042, S_user, FALSE, FALSE, 0)},
             <<RegistrationRow(N2042, Location(N2042, "10.0.0.1"), <<"sip-listener">>)>>)
DbCallWaiting ==
    Stage2Db({UserRow(N2042, S_user, FALSE, TRUE, 0)},
             <<RegistrationRow(N2042, Location(N2042, "10.0.0.1"), <<"sip-listener">>),
               RegistrationRow(N2042, Location(N2042, "10.0.0.2"), <<"dect-listener">>)>>)
DbOffline == Stage2Db({UserRow(N2042, S_user, FALSE, FALSE, 0)}, <<>>)
Stage2Dbs == {DbNoCallWaiting, DbCallWaiting, DbOffline}

\* the call.route messages of the Stage-2 runs: to 2042 with another id and
\* with the id of the active call, with X-No-Call-Wait in the sip_ spelling
\* and copyparams, by the stage2- prefix, without caller, through the trunk,
\* to the static user and to an unknown number
Stage2Messages ==
    { RouteParams(N4748, N2042, <<>>)
          @@ (Key("eventphone_stage2") :> <<"1">>) @@ (<<"osip_", "X-Eventphone-Id">> :> ID2),
      RouteParams(N4748, N2042, <<>>)
          @@ (Key("connection_id") :> INTERNAL_YATE_LISTENER)
          @@ (<<"osip_", "X-Eventphone-Id">> :> ID1),
      RouteParams(N4748, <<"stage2-">> \o N2042, <<>>)
          @@ (<<"sip_", "x-no-call-wait">> :> <<"1">>)
          @@ (Key("copyparams") :> <<"a">>),
      RouteParams(<<>>, N2042, <<>>) @@ (Key("eventphone_stage2") :> <<"1">>),
      RouteParams(N4748, N7755, <<>>) @@ (Key("eventphone_stage2") :> <<"1">>),
      RouteParams(N4748, N2099, <<>>) @@ (Key("eventphone_stage2") :> <<"1">>),
      RouteParams(N4748, N4747, <<>>) @@ (Key("eventphone_stage2") :> <<"1">>) }

\* the call.cdr messages of the Stage-2 runs: the calls of 2042 begin and end
Stage2CdrMessages ==
    {[operation |-> op, external |-> N2042] : op \in {S_initialize, S_finalize}}

Stage2Init ==
    /\ shutdown = FALSE
    /\ routing_db_engine = "open"
    /\ busy_impl \in BusyImpls
    /\ BusyIdle
    /\ store = NoStore
    /\ stage2_db \in Stage2Dbs
    /\ GenIdle
    /\ RouteIdle

\* call.cdr messages received in one Stage-2 run
MaxStage2Cdr == 3

\* the switch delivers a call.cdr message of a call of 2042
Stage2CdrMessage ==
    \E params \in Stage2CdrMessages :
        /\ cdr_count < MaxStage2Cdr
        /\ cdr_count' = cdr_count + 1
        /\ cdr_answers' = Append(cdr_answers, handle_cdr_answers(params))
        /\ cdr_tasks' = Append(cdr_tasks, params)
        /\ cdr_sequential' = handle_msg_task(busy_impl, cdr_sequential, params)
        /\ UNCHANGED <<busy_impl, busy_cache, cdr_log, last_query, store, stage2_db, gen_vars,
                       route_vars, shutdown, routing_db_engine>>

\* the switch delivers a call.route message that _call_route_handler gives
\* to Stage 2
Stage2CallRoute ==
    \E params \in Stage2Messages :
        /\ cpu = 0
        /\ route_count < MaxRoute
        /\ call_route_handler(params) = "stage2"
        /\ route_count' = route_count + 1
        /\ route_tasks' = Append(route_tasks, NewTask("stage2", params))
        /\ UNCHANGED <<busy_vars, store, stage2_db, gen_vars, cache_impl, routing_cache, route_answers, cpu, shutdown, routing_db_engine>>

\* RoutingTask.routing_job of Stage 2 up to its last read of the busy cache:
\* a message without caller is answered unhandled at once; a job that raised
\* ends without an answer; any other job acquired a database connection and
\* awaits the database, the reply of redis or the release of the connection
\* before it answers
Stage2RoutingJob ==
    \E i \in DOMAIN route_tasks :
        \E caller \in {Get(route_tasks[i].message.params, Key("caller"))} :
        \E out \in {IF caller = None
                    THEN Stage2Out(NoRaise, route_tasks[i].message, FALSE, FALSE, <<>>)
                    ELSE calculate_stage2_routing(stage2_db, busy_impl, busy_cache,
                             route_tasks[i].message, caller,
                             Get(route_tasks[i].message.params, Key("called")))} :
        \E runs_on \in {caller = None} :
        /\ cpu = 0
        /\ route_tasks[i].kind = "stage2"
        /\ route_tasks[i].pc = "start"
        /\ route_tasks' = [route_tasks EXCEPT ![i] =
              [@ EXCEPT !.pc = IF out.raise # NoRaise \/ runs_on THEN "done" ELSE "answer",
                        !.attempts = @ + 1,
                        !.raise = out.raise,
                        !.message = out.message,
                        !.handled = out.handled,
                        !.asked = out.asked]]
        /\ route_answers' = route_answers
              \o (IF out.raise = NoRaise /\ runs_on
                  THEN <<Answer(i, out.message, out.handled)>> ELSE <<>>)
        /\ busy_cache' = IF out.asked # <<>> /\ busy_impl = "PythonDictBusyCache"
                         THEN PythonDict_after_is_busy(busy_cache, out.asked[1].extension)
                         ELSE busy_cache
        /\ last_query' = IF out.asked # <<>>
                         THEN <<"is_busy", out.asked[1].extension, out.asked[1].busy>>
                         ELSE last_query
        /\ UNCHANGED <<busy_impl, cdr_tasks, cdr_count, cdr_answers, cdr_log, cdr_sequential,
                       store, stage2_db, gen_vars, cache_impl, routing_cache, route_count, cpu, shutdown, routing_db_engine>>

\* self._yate.answer_message(self._message, handled) of a job that suspended
Stage2Answer ==
    \E i \in DOMAIN route_tasks :
        /\ cpu = 0
        /\ route_tasks[i].kind = "stage2"
        /\ route_tasks[i].pc = "answer"
        /\ route_tasks' = [route_tasks EXCEPT ![i].pc = "done"]
        /\ route_answers' = Append(route_answers,
                                   Answer(i, route_tasks[i].message, route_tasks[i].handled))
        /\ UNCHANGED <<busy_vars, store, stage2_db, gen_vars, cache_impl, routing_cache, route_count, cpu, shutdown, routing_db_engine>>

Stage2Next ==
    \/ Stage2CdrMessage \/ HandleMsgTask \/ Flush
    \/ Stage2CallRoute \/ Stage2RoutingJob \/ Stage2Answer

SpecStage2 == Stage2Init /\ [][Stage2Next]_vars

-----------------------------------------------------------------------------
(* Database and cache failures: ywsd/util.py retry_db_offline around the   *)
(* routing jobs, and the redis routing cache                               *)

\* @retry_db_offline(count=4, wait_ms=1000)
count == 4
wait_ms == 1000

\* retry_db_offline after the sleep that follows a failed attempt: the next
\* pass of `for _ in range(count)`, or "Stopped retrying" and return
after_sleep_again(attempts) == "start"
after_sleep(attempts) == IF attempts < count THEN "start" ELSE "stopped"

\* the deferred routes that the answers given so far name
AnsweredNames(answers) ==
    UNION {DeferredLegs(answers[p].message)
           \cup (IF IsDeferredRoute(answers[p].message.return_value)
                 THEN {answers[p].message.return_value} ELSE {}) : p \in DOMAIN answers}

\* the call.route messages of the runs with failures: Stage 1 to the group
\* and without caller, Stage 2 to 2042 and without caller, and the re-entries
\* for the names in the cache, for the names of the answers (their keys may
\* have expired) and for a name that is not
FaultsMessages(cache, answers) ==
    { RouteParams(N4748, N2000, <<>>),
      RouteParams(<<>>, N2004, <<>>),
      RouteParams(N4748, N2042, <<>>) @@ (Key("eventphone_stage2") :> <<"1">>),
      RouteParams(<<>>, N2042, <<>>) @@ (Key("eventphone_stage2") :> <<"1">>),
      RouteParams(N4748, <<"stage1-", "nothing">>, <<>>) }
    \cup { RouteParams(N4748, SubSeq(name, 2, Len(name)), <<>>) :
             name \in DOMAIN cache \cup AnsweredNames(answers) }

FaultsInit ==
    /\ shutdown = FALSE
    /\ routing_db_engine = "open"
    /\ busy_impl = "PythonDictBusyCache"
    /\ BusyIdle
    /\ store = Stage1Store(<<"DISABLED", 0, 0>>, {})
    /\ stage2_db = DbNoCallWaiting
    /\ GenIdle
    /\ cache_impl \in CacheImpls
    /\ routing_cache = EmptyDict
    /\ route_tasks = <<>>
    /\ route_answers = <<>>
    /\ route_count = 0
    /\ cpu = 0

\* the switch delivers a call.route message: _call_route_handler creates the
\* task of Stage 1, of Stage 2 or of the cache retrieval
FaultsCallRoute ==
    \E params \in FaultsMessages(routing_cache, route_answers) :
        /\ cpu = 0
        /\ route_count < MaxRoute
        /\ route_count' = route_count + 1
        /\ route_tasks' = Append(route_tasks, NewTask(call_route_handler(params), params))
        /\ UNCHANGED <<busy_vars, store, stage2_db, gen_vars, cache_impl, routing_cache,
                       route_answers, cpu, shutdown, routing_db_engine>>

\* the job reads the database: Stage 1 in _calculate_stage1_routing, while
\* it awaits its connection, the caller or the tree; Stage 2 in
\* _calculate_stage2_routing, which a message without caller does not reach,
\* before it asks the busy
\* cache or, when it asked and the target is not busy, in is_active_call
ReadsDatabase(task) ==
    \/ /\ task.kind = "stage1"
       /\ task.pc \in {"acquire", "caller", "discover"}
    \/ /\ task.kind = "stage2"
       /\ Key("caller") \in DOMAIN task.request
       /\ \/ task.pc = "start"
          \/ task.pc = "answer" /\ task.asked # <<>> /\ ~task.asked[1].busy

\* the database is offline when the job reads it: the attempt ends with
\* OperationalError, which retry_db_offline logs; the message is as it was
DatabaseOffline ==
    \E i \in DOMAIN route_tasks :
        /\ cpu = 0
        /\ ReadsDatabase(route_tasks[i])
        /\ route_tasks' = [route_tasks EXCEPT ![i] =
              [@ EXCEPT !.pc = "sleep",
                        !.attempts = IF route_tasks[i].pc = "start" THEN @ + 1 ELSE @,
                        !.failures = @ + 1,
                        !.raise = OperationalError,
                        !.message = Message(route_tasks[i].request),
                        !.caller = <<>>,
                        !.caller_params = EmptyDict,
                        !.handled = FALSE,
                        !.asked = <<>>]]
        /\ UNCHANGED <<busy_vars, store, stage2_db, gen_vars, cache_impl, routing_cache,
                       route_answers, route_count, cpu, shutdown, routing_db_engine>>

\* await asyncio.sleep(wait_ms / 1000) of retry_db_offline, and what follows
RetrySleep ==
    \E i \in DOMAIN route_tasks :
        /\ cpu = 0
        /\ route_tasks[i].pc = "sleep"
        /\ route_tasks' = [route_tasks EXCEPT ![i] =
              [@ EXCEPT !.pc = after_sleep(route_tasks[i].attempts),
                        !.slept = Append(@, wait_ms)]]
        /\ UNCHANGED <<busy_vars, store, stage2_db, gen_vars, cache_impl, routing_cache,
                       route_answers, route_count, cpu, shutdown, routing_db_engine>>

\* time passes: one second less than the lifetime of a key, or all of it
Elapse ==
    \E seconds \in {object_lifetime - 1, object_lifetime} :
        /\ cpu = 0
        /\ routing_cache' = IF cache_impl = "RedisRoutingCache"
                            THEN RedisRoutingCache_expire(routing_cache, seconds)
                            ELSE routing_cache
        /\ UNCHANGED <<busy_vars, store, stage2_db, gen_vars, cache_impl, route_tasks,
                       route_answers, route_count, cpu, shutdown, routing_db_engine>>

FaultsNext ==
    \/ FaultsCallRoute
    \/ Elapse
    \/ DatabaseOffline
    \/ RetrySleep
    \/ Stage1Job
    \/ Stage2RoutingJob
    \/ Stage2Answer
    \/ Retrieve

SpecFaults == FaultsInit /\ [][FaultsNext]_vars

-----------------------------------------------------------------------------
(* Stage 2: claims                                                         *)

\* the Stage-2 job of task i asks the busy cache, or ends before, in this step
Stage2JobStep(i) ==
    /\ route_tasks[i].kind = "stage2"
    /\ route_tasks[i].pc = "start"
    /\ route_tasks'[i].pc # "start"

\* the task's message is a busy reply: handled, error=busy, no call target
Stage2Busied(task) ==
    /\ task.handled
    /\ Get(task.message.params, Key("error")) = <<"busy">>
    /\ task.message.return_value = None

\* the number the task asks for, and whether the request repeats an active call
Stage2Called(task) ==
    LET called == task.request[Key("called")] IN
    IF StartsWith(called, <<"stage2-">>) THEN SubSeq(called, 2, Len(called)) ELSE called
DuplicateCall(task) ==
    \E row \in stage2_db.active_calls :
        /\ row.username = Stage2Called(task)
        /\ row.x_eventphone_id = get_headers(Message(task.request))["X-Eventphone-Id"]

\* every answer of a Stage-2 task carries the task's message and verdict
Stage2AnswersAreTheTasks ==
    \A p \in DOMAIN route_answers :
        route_tasks[route_answers[p].task].kind = "stage2" =>
            /\ route_answers[p].message = route_tasks[route_answers[p].task].message
            /\ route_answers[p].handled = route_tasks[route_answers[p].task].handled

\* C17 as stated: for a target with a registration, when X-No-Call-Wait is 1
\* or call waiting is off and the busy cache says busy, the answer is handled
\* with error=busy and without call target, and the answer is busy exactly
\* as long as the processed initialize events of the extension outnumber the
\* processed finalize events.
C17_BusyWhileInitsOutnumberFinals ==
    [][\A i \in DOMAIN route_tasks :
          (Stage2JobStep(i) /\ route_tasks'[i].asked # <<>>) =>
              /\ route_tasks'[i].asked[1].busy => Stage2Busied(route_tasks'[i])
              /\ ~DuplicateCall(route_tasks[i]) =>
                    (Stage2Busied(route_tasks'[i]) <=>
                        LogOf(cdr_log, route_tasks'[i].asked[1].extension).inits
                          > LogOf(cdr_log, route_tasks'[i].asked[1].extension).finals)]_vars

\* C17, amended: under the same condition the answer is handled with
\* error=busy and without call target when the busy cache says busy; apart
\* from repeated calls the answer is busy exactly while the busy counter of
\* the extension is positive, and that is exactly while the processed
\* initialize events outnumber the processed finalize events as long as no
\* finalize was processed at a counter of zero or less; the answer given is
\* the task's message.
C17_BusyWhileCounterPositive ==
    /\ [][\A i \in DOMAIN route_tasks :
            (Stage2JobStep(i) /\ route_tasks'[i].asked # <<>>) =>
                LET extension == route_tasks'[i].asked[1].extension
                    log == LogOf(cdr_log, extension) IN
                /\ route_tasks'[i].asked[1].busy => Stage2Busied(route_tasks'[i])
                /\ ~DuplicateCall(route_tasks[i]) =>
                      /\ Stage2Busied(route_tasks'[i]) <=> Counter(busy_cache, extension) > 0
                      /\ ~log.final_at_zero =>
                            (Stage2Busied(route_tasks'[i]) <=> log.inits > log.finals)]_vars
    /\ [](Stage2AnswersAreTheTasks)

\* after two initialize events and one finalize event, a call to the
\* registered 2042 that asked the busy cache was answered busy
C17_Witness ==
    /\ cdr_tasks = <<>>
    /\ LogOf(cdr_log, N2042).inits = 2
    /\ LogOf(cdr_log, N2042).finals = 1
    /\ \E p \in DOMAIN route_answers :
          LET task == route_tasks[route_answers[p].task] IN
          /\ task.kind = "stage2"
          /\ task.asked # <<>>
          /\ ~DuplicateCall(task)
          /\ Stage2Busied(task)
          /\ route_answers[p].handled
          /\ Get(route_answers[p].message.params, Key("error")) = <<"busy">>

\* the user or trunk the task asks for exists, is not static and has no row
\* in the registrations table
OfflineTarget(task) ==
    LET user == load_user(stage2_db, Stage2Called(task))
        found == IF user # <<>> THEN user ELSE load_trunk(stage2_db, Stage2Called(task)) IN
    /\ found # <<>>
    /\ found[1].type # S_static
    /\ \A r \in DOMAIN stage2_db.registrations :
          stage2_db.registrations[r].username # found[1].username

Stage2Offline(task, message, handled) ==
    /\ handled
    /\ Get(message.params, Key("error")) = <<"offline">>
    /\ Get(message.params, Key("reason")) = <<"offline">>
    /\ message.return_value = None

\* C18: when the Stage-2 target user exists, is not static and has no
\* registrations, the job ends with handled, error=offline, reason=offline
\* and no call target without asking the busy cache, and that is the answer
\* it gives, whatever the busy state and the active-call rows.
C18_OfflineBeforeBusyAndDuplicate ==
    \A i \in DOMAIN route_tasks :
        (/\ route_tasks[i].kind = "stage2"
         /\ route_tasks[i].pc # "start"
         /\ Key("caller") \in DOMAIN route_tasks[i].request
         /\ OfflineTarget(route_tasks[i])) =>
            /\ route_tasks[i].raise = NoRaise
            /\ route_tasks[i].asked = <<>>
            /\ Stage2Offline(route_tasks[i], route_tasks[i].message, route_tasks[i].handled)
            /\ route_tasks[i].pc = "done" =>
                  \E p \in DOMAIN route_answers :
                      /\ route_answers[p].task = i
                      /\ Stage2Offline(route_tasks[i], route_answers[p].message,
                                       route_answers[p].handled)
            /\ \A p \in DOMAIN route_answers :
                  route_answers[p].task = i =>
                      Stage2Offline(route_tasks[i], route_answers[p].message,
                                    route_answers[p].handled)

\* 2042 has no registration, its busy counter is positive, and a call that
\* repeats its active call was answered
C18_Witness ==
    /\ Counter(busy_cache, N2042) > 0
    /\ \E p \in DOMAIN route_answers :
          LET task == route_tasks[route_answers[p].task] IN
          /\ task.kind = "stage2"
          /\ OfflineTarget(task)
          /\ DuplicateCall(task)
          /\ LogOf(cdr_log, N2042).inits > 0
          /\ Stage2Offline(task, route_answers[p].message, route_answers[p].handled)

-----------------------------------------------------------------------------
(* Database and cache failures: claims                                     *)

\* C19: a Stage-1 or Stage-2 routing job that fails with a database transport
\* error is re-run after a fixed wait of 1 s, for at most 4 attempts in
\* total; an attempt that completes without a database transport error is
\* never re-run, and after the 4th failed attempt no further attempt is made.
C19_RetriedAfterDatabaseError ==
    /\ [](\A i \in DOMAIN route_tasks :
            LET task == route_tasks[i] IN
            /\ task.attempts <= 4
            /\ task.failures <= task.attempts
            /\ task.attempts - task.failures <= 1
            /\ Len(task.slept) <= task.failures
            /\ \A k \in DOMAIN task.slept : task.slept[k] = 1000
            /\ task.pc = "stopped" => task.failures = 4 /\ Len(task.slept) = 4)
    /\ [][\A i \in DOMAIN route_tasks :
            LET task == route_tasks[i] IN
            /\ route_tasks'[i].attempts # task.attempts =>
                  /\ route_tasks'[i].attempts = task.attempts + 1
                  /\ task.attempts < 4
                  /\ task.failures = task.attempts
                  /\ Len(task.slept) = task.attempts
                  /\ task.attempts > 0 => task.raise = OperationalError
            /\ (task.pc = "sleep" /\ route_tasks'[i].pc # "sleep") =>
                  route_tasks'[i].pc = IF task.failures < 4 THEN "start" ELSE "stopped"
            /\ task.pc \in {"done", "stopped"} => route_tasks'[i] = task]_vars

\* a Stage-1 job failed three times, waited 1 s each time and was answered
\* on its fourth attempt; a Stage-2 job failed four times and was given up
C19_Witness ==
    /\ \E p \in DOMAIN route_answers :
          LET task == route_tasks[route_answers[p].task] IN
          /\ task.kind = "stage1"
          /\ Key("caller") \in DOMAIN task.request
          /\ task.pc = "done"
          /\ task.attempts = 4
          /\ task.failures = 3
          /\ task.slept = <<1000, 1000, 1000>>
          /\ route_answers[p].handled
    /\ \E i \in DOMAIN route_tasks :
          /\ route_tasks[i].kind = "stage2"
          /\ route_tasks[i].pc = "stopped"
          /\ route_tasks[i].attempts = 4
          /\ route_tasks[i].slept = <<1000, 1000, 1000, 1000>>
          /\ \A p \in DOMAIN route_answers : route_answers[p].task # i

\* C20: a stage1- re-entry request is always answered: when the routing cache
\* has no entry for the key, or when the retrieve fails with a transport
\* error, the engine still answers the message, handled and without a leg.
C20_ReEntryAlwaysAnswered ==
    \A i \in DOMAIN route_tasks :
        (route_tasks[i].kind = "retrieve" /\ route_tasks[i].pc = "done") =>
            \E p \in DOMAIN route_answers :
                /\ route_answers[p].task = i
                /\ route_answers[p].handled

-----------------------------------------------------------------------------
(* The Stage-1 task on its own: stage1.RoutingTask(yate, message) and its  *)
(* routing_job, for one message that _call_route_handler gives to Stage 1  *)

TaskInitOver(stores, messages) ==
    /\ shutdown = FALSE
    /\ routing_db_engine = "open"
    /\ store \in stores
    /\ stage2_db = NoStage2Db
    /\ busy_impl = "PythonDictBusyCache"
    /\ BusyIdle
    /\ GenIdle
    /\ cache_impl = "PythonDictRoutingCache"
    /\ routing_cache = EmptyDict
    /\ \E params \in messages : route_tasks = <<NewTask("stage1", params)>>
    /\ route_answers = <<>>
    /\ route_count = 1
    /\ cpu = 0

TaskNext == Stage1Job

-----------------------------------------------------------------------------
(* Stage 1: further claims                                                 *)

\* the answers given to task i, by position
AnswersOf(i) == {p \in DOMAIN route_answers : route_answers[p].task = i}

\* C21: a call.route message without caller that is handed to Stage-1 is
\* answered unhandled and nothing else is done for it: one answer, the
\* message as it came, no routing result and no cache entry.
C21_NoCallerOnlyUnhandled ==
    \A i \in DOMAIN route_tasks :
        (/\ route_tasks[i].kind = "stage1"
         /\ Key("caller") \notin DOMAIN route_tasks[i].request
         /\ route_tasks[i].pc # "start") =>
            /\ Cardinality(AnswersOf(i)) = 1
            /\ \A p \in AnswersOf(i) :
                  /\ ~route_answers[p].handled
                  /\ route_answers[p].message = Message(route_tasks[i].request)
            /\ route_tasks[i].routing_result = IntermediateRoutingResultSimple(NoCallTarget)
            /\ route_tasks[i].routing_cache_entries = EmptyDict

\* the request of task i came in on the internal listener
FromInternalListener(i) ==
    GetDefault(route_tasks[i].request, Key("connection_id"), <<>>) = INTERNAL_YATE_LISTENER

\* C22: a request for a number whose connection_id is the internal listener
\* is a request of Stage 1, which accepts the caller without a username and
\* routes the call; the task does not end in an error because of the
\* caller.
C22_InternalListenerTrusted ==
    \A i \in DOMAIN route_tasks :
        (/\ FromInternalListener(i)
         /\ IsDigit(route_tasks[i].request[Key("called")])) =>
            /\ route_tasks[i].kind = "stage1"
            /\ route_tasks[i].pc = "done" =>
                  /\ route_tasks[i].raise = NoRaise
                  /\ \A p \in AnswersOf(i) :
                        /\ route_answers[p].handled
                        /\ ErrorOf(p) = None

-----------------------------------------------------------------------------
(* Generation: further claims                                              *)

\* the row of the called extension 2000 in the store
RootOf(db) == CHOOSE r \in db.extensions : r.id = 9

\* calculate_routing was run for the called extension 2000 and gave a result
Routed2000 ==
    /\ generation # <<>>
    /\ discovery[1].target_extension = N2000
    /\ generation[1].raise = NoRaise

\* C23: when the called extension forwards with mode ENABLED, at once (delay
\* 0) or after a delay, the envelope of the Stage-1 result carries
\* x_originally_called and osip_X-Originally-Called, both the called number.
C23_ForwardCarriesOriginallyCalled ==
    (Routed2000 /\ RootOf(store).forwarding_mode = "ENABLED") =>
        LET parameters == generation[1].routing_result.target.parameters IN
        /\ "x_originally_called" \in DOMAIN parameters
        /\ "osip_X-Originally-Called" \in DOMAIN parameters
        /\ parameters["x_originally_called"] = N2000
        /\ parameters["osip_X-Originally-Called"] = N2000

\* the called extension 2000 forwards after a delay to the GROUP 4000, which
\* has no ranks and so no route
ForwardsLaterToNoRoute ==
    /\ RootOf(store).forwarding_mode = "ENABLED"
    /\ RootOf(store).forwarding_delay > 0
    /\ RootOf(store).forwarding_extension_id = 4

\* C27: when the called extension has a delayed forward (ENABLED, delay > 0)
\* whose target yields no route, routing succeeds with a Fork of the
\* remaining legs: no entry for the forward target and no separator for it.
C27_ForwardToNoRouteLeftOut ==
    (/\ generation # <<>>
     /\ discovery[1].target_extension = N2000
     /\ ForwardsLaterToNoRoute
     /\ RootOf(store).type = "SIMPLE") =>
        /\ generation[1].raise = NoRaise
        /\ generation[1].routing_result.type = "FORK"
        /\ Targets(generation[1].routing_result) = <<<<"lateroute/">> \o N2000>>

-----------------------------------------------------------------------------
(* Ringback: results of either shape for a called extension with and       *)
(* without a ringback id, with and without the file on disk                *)

\* forwarding of 2000 in the ringback stores
RingbackForwards ==
    { <<"DISABLED", 0, 0>>, <<"ENABLED", 0, 1>>, <<"ENABLED", 2, 1>>, <<"ON_BUSY", 0, 1>> }

\* the .slin files in RINGBACK_TOP_DIRECTORY
RingbackFiles == { {}, {<<"ring">>}, {<<"other">>} }

RingbackStores ==
    {Store([RootRow(type, fw) EXCEPT !.ringback = ringback], ranks, files) :
        type \in {"GROUP", "MULTIRING"}, fw \in RingbackForwards,
        ranks \in RankLists(0) \cup RankLists(1),
        ringback \in {None, <<"ring">>}, files \in RingbackFiles}
    \cup {Store([RootRow("SIMPLE", fw) EXCEPT !.ringback = ringback], <<>>, files) :
             fw \in RingbackForwards, ringback \in {None, <<"ring">>},
             files \in RingbackFiles}

RingbackInit ==
    /\ shutdown = FALSE
    /\ routing_db_engine = "open"
    /\ store \in RingbackStores
    /\ stage2_db = NoStage2Db
    /\ GenIdle
    /\ busy_impl = "PythonDictBusyCache"
    /\ BusyIdle
    /\ RouteIdle

SpecRingback == RingbackInit /\ [][GenNext]_vars

\* the result of the generation visitor for the discovered tree, before
\* _provide_ringback
MainResult ==
    Generation_visit(GenerationContext(1), <<discovery[1].visitor.node>>, <<>>,
                     EmptyDict).result

\* the called extension has a ringback id and its file is on disk
HasRingback ==
    /\ RootOf(store).ringback # None
    /\ RootOf(store).ringback \in store.ringback_files

IsRingbackLeg(leg) ==
    /\ leg.target = <<"wave/play/">> \o RINGBACK_TOP_DIRECTORY \o <<"/">>
                      \o RootOf(store).ringback \o <<".slin">>
    /\ DOMAIN leg.parameters = {"fork.calltype", "fork.autoring", "fork.automessage"}
    /\ leg.parameters["fork.calltype"] = <<"persistent">>
    /\ leg.parameters["fork.autoring"] = <<"true">>
    /\ leg.parameters["fork.automessage"] = <<"call.progress">>

RingbackAdded(main, final) ==
    /\ final.type = "FORK"
    /\ IsRingbackLeg(final.fork_targets[1])
    /\ is_simple(main) =>
          /\ final.target.target = <<"fork">>
          /\ Targets(final) = <<final.fork_targets[1].target, main.target.target>>
    /\ ~is_simple(main) =>
          /\ final.target.target = main.target.target
          /\ Targets(final) = <<final.fork_targets[1].target>> \o Targets(main)

RingbackAbsent(main, final) ==
    /\ final.type = main.type
    /\ final.target.target = main.target.target
    /\ Targets(final) = Targets(main)
    /\ \A i \in DOMAIN final.fork_targets :
          ~StartsWith(final.fork_targets[i].target, <<"wave/play/">>)

\* C24: the ringback leg wave/play/<path> with fork.calltype=persistent,
\* fork.autoring=true, fork.automessage=call.progress is the first leg of the
\* result iff the called extension has a ringback id and the file
\* <top-dir>/<id>.slin exists; then a Simple result is a Fork of the ringback
\* leg and the target with return value fork, and a Fork keeps its legs in
\* order after the ringback leg; otherwise targets and legs are unchanged.
C24_RingbackLeg ==
    Routed2000 =>
        IF HasRingback
        THEN RingbackAdded(MainResult, generation[1].routing_result)
        ELSE RingbackAbsent(MainResult, generation[1].routing_result)

\* both shapes were given a ringback leg, and both were left without one
C24_Witness ==
    /\ Routed2000
    /\ HasRingback
    /\ is_simple(MainResult)
    /\ Len(generation[1].routing_result.fork_targets) = 2
C24_WitnessFork ==
    /\ Routed2000
    /\ HasRingback
    /\ ~is_simple(MainResult)
    /\ Len(generation[1].routing_result.fork_targets) > 2

-----------------------------------------------------------------------------
(* Simple targets: 2000 as an EXTERNAL, SIMPLE or MULTIRING extension on   *)
(* the local switch, on a remote one and, as the table allows for EXTERNAL *)
(* and TRUNK rows only, without a switch                                   *)

\* the ranks of 2000: none, or one with a remote and an EXTERNAL member
SimpleRanks ==
    { <<>>,
      <<Rank(21, 1, "DEFAULT", 0, <<Member(1, "DEFAULT", TRUE), Member(8, "DEFAULT", TRUE)>>)>> }

\* the constraint yate_id_not_null_for_direct_ring of Extension.table: a
\* SIMPLE or MULTIRING row has a switch
yate_id_not_null_for_direct_ring(row) ==
    row.yate_id # 0 \/ (row.type # "SIMPLE" /\ row.type # "MULTIRING")

SimpleRoots ==
    {row \in {[RootRow(type, <<"DISABLED", 0, 0>>) EXCEPT !.yate_id = yate_id] :
                 type \in {"EXTERNAL", "SIMPLE", "MULTIRING"}, yate_id \in {0, 1, 2}} :
        yate_id_not_null_for_direct_ring(row)}

SimpleStores == {Store(root, ranks, {}) : root \in SimpleRoots, ranks \in SimpleRanks}

\* calls from outside to 2000, to plain extensions, to a MULTIRING one and
\* through the trunk that has no switch
SimpleMessages ==
    {RouteParams(N4748, called, <<>>) :
        called \in {N2000, N2001, N2004, N2005, <<"0", "9", "0", "1">>, <<"5", "5">>}}

SimpleInit == TaskInitOver(SimpleStores, SimpleMessages)

SpecSimple == SimpleInit /\ [][TaskNext]_vars

\* the kinds whose own leg is a simple target
SimpleKinds == {"EXTERNAL", "SIMPLE", "MULTIRING"}

HasNoHost(row) == row.type # "EXTERNAL" /\ row.yate_id = 0
IsLocal(row) == row.type = "EXTERNAL" \/ row.yate_id = LOCAL_YATE_ID

\* the target, and the parameter that goes with it, of an extension that has
\* a switch host or is EXTERNAL
SimpleTargetOf(row) ==
    IF IsLocal(row)
    THEN [target |-> <<"lateroute/">> \o row.extension,
          key |-> "eventphone_stage2", value |-> <<"1">>]
    ELSE [target |-> <<"sip/sip:">> \o row.extension \o <<"@">>
                        \o yates_dict[row.yate_id].hostname,
          key |-> "oconnection_id", value |-> yates_dict[row.yate_id].voip_listener]

IsSimpleTargetOf(leg, row) ==
    /\ leg.target = SimpleTargetOf(row).target
    /\ SimpleTargetOf(row).key \in DOMAIN leg.parameters
    /\ leg.parameters[SimpleTargetOf(row).key] = SimpleTargetOf(row).value

\* the extension's own number is the last part of the leg's target or stands
\* in front of its host
IsLegFor(leg, row) ==
    \/ leg.target = <<"lateroute/">> \o row.extension
    \/ StartsWith(leg.target, <<"sip/sip:">> \o row.extension \o <<"@">>)

\* task i was made for a call to this extension, which rings itself
CallsOwnLeg(i, row) ==
    /\ route_tasks[i].request[Key("called")] = row.extension
    /\ row.type \in SimpleKinds
    /\ row.forwarding_mode = "DISABLED"

\* task i was made for a call that leaves through this trunk
CallsTrunk(i, row) ==
    /\ row.type = "TRUNK"
    /\ StartsWith(route_tasks[i].request[Key("called")], row.extension)
    /\ \A other \in store.extensions :
          other.extension # route_tasks[i].request[Key("called")]

\* the extension rings itself and nothing else
CallsSimple(i, row) ==
    /\ CallsOwnLeg(i, row)
    /\ row.type = "MULTIRING" => row.id \notin DOMAIN store.ranks

\* C25: an extension routed as a simple target gives lateroute/<extension>
\* with eventphone_stage2=1 when it is EXTERNAL or on the local switch,
\* sip/sip:<extension>@<hostname> with oconnection_id = the voip listener of
\* its host when it is on a remote switch, and a RoutingError failure,
\* answered handled with error=failure, when it is not EXTERNAL and has no
\* switch (a TRUNK: the table refuses a SIMPLE or MULTIRING row without
\* one); as the whole result and as a leg of a Fork.
C25_SimpleTargets ==
    \A i \in DOMAIN route_tasks : route_tasks[i].pc = "done" =>
        /\ \A row \in store.extensions : ((CallsOwnLeg(i, row) \/ CallsTrunk(i, row)) /\ HasNoHost(row)) =>
              /\ route_tasks[i].raise = RoutingError("failure")
              /\ \A p \in AnswersOf(i) :
                    /\ route_answers[p].handled
                    /\ ErrorOf(p) = <<"failure">>
        /\ \A row \in store.extensions : (CallsSimple(i, row) /\ ~HasNoHost(row)) =>
              /\ route_tasks[i].raise = NoRaise
              /\ IsSimpleTargetOf(route_tasks[i].routing_result.target, row)
              /\ \A p \in AnswersOf(i) :
                    /\ route_answers[p].handled
                    /\ route_answers[p].message.return_value = SimpleTargetOf(row).target
                    /\ route_answers[p].message.params[Key(SimpleTargetOf(row).key)]
                          = SimpleTargetOf(row).value
        /\ \A k \in DOMAIN route_tasks[i].routing_result.fork_targets :
           \A row \in store.extensions :
              (row.type \in SimpleKinds
               /\ IsLegFor(route_tasks[i].routing_result.fork_targets[k], row)) =>
                  /\ ~HasNoHost(row)
                  /\ IsSimpleTargetOf(route_tasks[i].routing_result.fork_targets[k], row)

\* a call to 2000 on the remote switch was answered with sip/sip:2000@dect
C25_Witness ==
    \E p \in DOMAIN route_answers :
        /\ RootOf(store).type = "SIMPLE"
        /\ RootOf(store).yate_id = 1
        /\ route_answers[p].handled
        /\ route_answers[p].message.return_value = <<"sip/sip:">> \o N2000 \o <<"@", "dect">>
        /\ route_answers[p].message.params[Key("oconnection_id")] = <<"local">>

-----------------------------------------------------------------------------
(* The reply encoding: claims                                              *)

\* the callto parameters of a message
CalltoParams(message) == {name \in DOMAIN message.params : StartsWith(name, <<"callto.">>)}

\* the parameters of a leg that the envelope does not have with that value
Differing(leg, envelope) ==
    {key \in DOMAIN leg.parameters :
        key \notin DOMAIN envelope \/ envelope[key] # leg.parameters[key]}

\* the successful answers: task, position of the answer, result encoded
SuccessfulAnswers ==
    {<<i, p>> \in (DOMAIN route_tasks) \X (DOMAIN route_answers) :
        /\ route_answers[p].task = i
        /\ route_tasks[i].kind = "stage1"
        /\ route_tasks[i].pc = "done"
        /\ route_tasks[i].raise = NoRaise
        /\ route_answers[p].handled}

EncodesFork(message, legs, envelope) ==
    /\ message.return_value = <<"fork">>
    /\ CalltoParams(message) =
          {callto(k) : k \in DOMAIN legs}
          \cup UNION {{callto_key(k, key) : key \in Differing(legs[k], envelope)} :
                         k \in DOMAIN legs}
    /\ \A k \in DOMAIN legs :
          /\ message.params[callto(k)] = legs[k].target
          /\ \A key \in Differing(legs[k], envelope) :
                message.params[callto_key(k, key)] = legs[k].parameters[key]

\* C26: a successful Stage-1 reply for a Fork of the legs L1..Ln has return
\* value fork, callto.<i> = the target of Li for i in 1..n, and
\* callto.<i>.<key> exactly for the parameters of Li that the envelope lacks
\* or has with another value; a reply for a Simple result has the target as
\* return value and no callto parameter.
C26_ForkEncoding ==
    \A a \in SuccessfulAnswers :
        IF route_tasks[a[1]].routing_result.type = "FORK"
        THEN EncodesFork(route_answers[a[2]].message,
                         route_tasks[a[1]].routing_result.fork_targets,
                         route_tasks[a[1]].routing_result.target.parameters)
        ELSE /\ route_answers[a[2]].message.return_value
                   = route_tasks[a[1]].routing_result.target.target
             /\ CalltoParams(route_answers[a[2]].message) = {}

\* a Fork was answered whose legs have parameters that are emitted and
\* parameters that are not
C26_Witness ==
    \E a \in SuccessfulAnswers :
        LET result == route_tasks[a[1]].routing_result IN
        /\ result.type = "FORK"
        /\ Len(result.fork_targets) >= 3
        /\ \E k \in DOMAIN result.fork_targets :
              /\ Differing(result.fork_targets[k], result.target.parameters) # {}
              /\ Differing(result.fork_targets[k], result.target.parameters)
                    # DOMAIN result.fork_targets[k].parameters

-----------------------------------------------------------------------------
(* Shutdown: the SIGINT handler of YateRoutingEngine.main, the end of main *)
(* and the call.route messages around them                                 *)

\* the signal handler installed by main, and trigger_shutdown:
\* self._shutdown_future.set_result(True)
Sigint ==
    /\ ~shutdown
    /\ shutdown' = TRUE
    /\ UNCHANGED <<busy_vars, store, stage2_db, gen_vars, route_vars, routing_db_engine>>

\* main resumes after the signal and leaves `async with` of the engines:
\* __aexit__ calls close() of the engine, after which acquire() raises, and
\* then awaits wait_closed(); the jobs that hold a connection go on with it
LeaveEngines ==
    /\ shutdown
    /\ routing_db_engine = "open"
    /\ cpu = 0
    /\ routing_db_engine' = "closed"
    /\ UNCHANGED <<busy_vars, store, stage2_db, gen_vars, route_vars, shutdown>>

\* wait_closed() returns when the connections in use are given back; then
\* the end of main: the routing cache is stopped (the in-memory cache of
\* these runs has nothing to stop) and _routing_db_engine is set to None
MainReturns ==
    /\ routing_db_engine = "closed"
    /\ cpu = 0
    /\ \A i \in DOMAIN route_tasks :
           route_tasks[i].pc \notin {"caller", "discover", "release"}
    /\ routing_db_engine' = "None"
    /\ UNCHANGED <<busy_vars, store, stage2_db, gen_vars, route_vars, shutdown>>

\* the steps of the tasks created for call.route messages
TaskSteps == Stage1Job \/ RetrieveFromCache

ShutdownNext == CallRoute \/ TaskSteps \/ Sigint \/ LeaveEngines \/ MainReturns

SpecShutdown == RouteInit /\ [][ShutdownNext]_vars

\* the tasks in flight are kept, with their answers, and none is added
OnlyTasksInFlight ==
    /\ Len(route_tasks') = Len(route_tasks)
    /\ Len(route_answers') >= Len(route_answers)
    /\ \A i \in DOMAIN route_tasks :
          route_tasks[i].pc = "done" => route_tasks'[i] = route_tasks[i]

\* C28: after the termination signal the routing tasks in flight run on to
\* their answers, and no routing task is started for a call.route message
\* that arrives after the signal: once the shutdown intent is recorded, every
\* step is a step of a task that was in flight.
C28_ShutdownCompletesAndRefuses == [][shutdown => OnlyTasksInFlight]_vars

-----------------------------------------------------------------------------
(* Stage 2: further claims                                                 *)

\* the request names a user or a trunk of the Stage-2 database
FoundUser(task) ==
    \/ load_user(stage2_db, Stage2Called(task)) # <<>>
    \/ load_trunk(stage2_db, Stage2Called(task)) # <<>>

\* the elements of a comma-separated list
ListElements(list) == {list[k] : k \in DOMAIN list} \ {","}

\* the message carries the id of the request headers, and copyparams, which
\* keeps what the request had in it, lists X-Eventphone-Id
Stamped(request, message) ==
    /\ Key("X-Eventphone-Id") \in DOMAIN message.params
    /\ message.params[Key("X-Eventphone-Id")]
          = get_headers(Message(request))["X-Eventphone-Id"]
    /\ Key("copyparams") \in DOMAIN message.params
    /\ "X-Eventphone-Id" \in ListElements(message.params[Key("copyparams")])
    /\ IF Key("copyparams") \in DOMAIN request
       THEN message.params[Key("copyparams")]
               = request[Key("copyparams")] \o <<",", "X-Eventphone-Id">>
       ELSE message.params[Key("copyparams")] = <<"X-Eventphone-Id">>

\* C29: every Stage-2 answer for a found user, whatever its outcome (routed,
\* static target, offline, busy, duplicate call), carries the X-Eventphone-Id
\* of the request headers, and its copyparams list contains X-Eventphone-Id,
\* appended to the list of the request or as the only element; and every
\* such request is answered.
C29_AnswersStamped ==
    /\ \A p \in DOMAIN route_answers :
          LET task == route_tasks[route_answers[p].task] IN
          (/\ task.kind = "stage2"
           /\ Key("caller") \in DOMAIN task.request
           /\ FoundUser(task)) => Stamped(task.request, route_answers[p].message)
    /\ \A i \in DOMAIN route_tasks :
          (/\ route_tasks[i].kind = "stage2"
           /\ route_tasks[i].pc = "done"
           /\ Key("caller") \in DOMAIN route_tasks[i].request
           /\ FoundUser(route_tasks[i])) => AnswersOf(i) # {}

-----------------------------------------------------------------------------
(* Discovery: what is pruned, and what the generator makes of it           *)

\* the active flag of a member as the store has it
StoredActive(db, node, i, j) ==
    populate_fork_ranks(db, Extension(node.row)).fork_ranks[i].members[j].active

MemberPositions(node) ==
    UNION {{<<i, j>> : j \in DOMAIN node.fork_ranks[i].members} : i \in DOMAIN node.fork_ranks}

\* the forwarding modes a node can have whose forward was not pruned: the
\* stored one, and once the generator has walked the graph DISABLED for a
\* stored ENABLED, which an untimed separator writes (C33)
UnprunedModes(forwarding_mode, generated) ==
    IF generated /\ forwarding_mode = "ENABLED" THEN {"ENABLED", "DISABLED"}
    ELSE {forwarding_mode}

\* in the graph below the node, given the path it was reached on: a loaded
\* forwarding target whose number is on the path has left the node with
\* forwarding mode DISABLED, a member active in the store whose number is on
\* the path is inactive in the graph, and everything else is as stored, but
\* for what the generator has written since (generated)
RECURSIVE PrunedAsFound(_, _, _, _)
PrunedAsFound(db, node, path, generated) ==
    LET local == Range(path) \cup {node.row.extension} IN
    /\ node.forwarding_extension # <<>> =>
          IF node.forwarding_extension[1].row.extension \in local
          THEN node.forwarding_mode = "DISABLED"
          ELSE /\ node.forwarding_mode \in UnprunedModes(node.row.forwarding_mode, generated)
               /\ PrunedAsFound(db, node.forwarding_extension[1],
                                Append(path, node.row.extension), generated)
    /\ \A p \in MemberPositions(node) :
          LET member == node.fork_ranks[p[1]].members[p[2]] IN
          IF StoredActive(db, node, p[1], p[2]) /\ member.extension.row.extension \in local
          THEN ~member.active
          ELSE /\ member.active = StoredActive(db, node, p[1], p[2])
               /\ member.active =>
                     PrunedAsFound(db, member.extension, Append(path, node.row.extension),
                                   generated)

\* a forwarding target or an active member below the node was on its path
RECURSIVE PrunedSomewhere(_, _, _)
PrunedSomewhere(db, node, path) ==
    LET local == Range(path) \cup {node.row.extension} IN
    \/ /\ node.forwarding_extension # <<>>
       /\ \/ node.forwarding_extension[1].row.extension \in local
          \/ PrunedSomewhere(db, node.forwarding_extension[1],
                             Append(path, node.row.extension))
    \/ \E p \in MemberPositions(node) :
          LET member == node.fork_ranks[p[1]].members[p[2]] IN
          /\ StoredActive(db, node, p[1], p[2])
          /\ \/ member.extension.row.extension \in local
             \/ PrunedSomewhere(db, member.extension, Append(path, node.row.extension))

\* the nodes the generator visits, each with the numbers on its path
RECURSIVE NodesOf(_, _)
NodesOf(node, path) ==
    {[tree_identifier |-> node.tree_identifier, extension |-> node.row.extension,
      type |-> node.row.type, path |-> Range(path) \cup {node.row.extension}]}
    \cup UNION {NodesOf(child, Append(path, node.row.extension)) : child \in Followed(node)}

\* the leg calls this number
IsLegForNumber(leg, number) ==
    \/ leg.target = <<"lateroute/">> \o number
    \/ StartsWith(leg.target, <<"sip/sip:">> \o number \o <<"@">>)

\* the discovery left the graph and the visitor's flag as described, and the
\* generator leaves what was pruned as it is
DiscoveryPrunes ==
    discovery # <<>> =>
        /\ PrunedAsFound(store, discovery[1].visitor.node,
                         <<discovery[1].source.row.extension>>, generation # <<>>)
        /\ discovery[1].visitor.pruned
              = PrunedSomewhere(store, discovery[1].visitor.node,
                                <<discovery[1].source.row.extension>>)

\* no Fork has a leg for a number on the path of its node, but for the first
\* leg of a SIMPLE or MULTIRING extension, which calls the extension itself
NoLegForPruned ==
    discovery # <<>> =>
        \A n \in NodesOf(discovery[1].visitor.node, <<discovery[1].source.row.extension>>) :
        \A fork \in EmittedForks :
            fork.target.oid = n.tree_identifier =>
                \A k \in DOMAIN fork.fork_targets : \A number \in n.path :
                    IsLegForNumber(fork.fork_targets[k], number) =>
                        /\ k = 1
                        /\ number = n.extension
                        /\ n.type \in {"SIMPLE", "MULTIRING"}

\* C30: when discovery finds the forwarding target of a node, or an active
\* member of a rank, with a number already on the current path, it sets the
\* pruned flag of the visitor and sets the forwarding mode of the node to
\* DISABLED, or the member's active flag to false, in the graph of the request
\* only; the generator emits no leg for a pruned forward or member; the store
\* is never written.
C30_PrunedInMemoryOnly ==
    /\ [](DiscoveryPrunes /\ NoLegForPruned)
    /\ [][store' = store]_vars

\* a member and a forward of 2000 were pruned and a Fork was made of the rest
C30_Witness ==
    /\ Routed2000
    /\ discovery[1].visitor.pruned
    /\ generation[1].routing_result.type = "FORK"
    /\ discovery[1].visitor.node.forwarding_mode = "DISABLED"
    /\ RootOf(store).forwarding_mode # "DISABLED"
    /\ discovery[1].visitor.node.forwarding_extension[1].row.extension
           \in {discovery[1].source.row.extension, RootOf(store).extension}
    /\ \E p \in MemberPositions(discovery[1].visitor.node) :
          /\ StoredActive(store, discovery[1].visitor.node, p[1], p[2])
          /\ ~discovery[1].visitor.node.fork_ranks[p[1]].members[p[2]].active

-----------------------------------------------------------------------------
(* Ranks and forwards: 2000 with up to three ranks, each with members of   *)
(* its own, and a forward to the EXTERNAL extension 0901                   *)

MaxRankList == MaxRanks + 1

\* forwarding_mode, forwarding_delay and forwarding_extension_id of 2000
RankForwards ==
    { <<"DISABLED", 0, 0>>, <<"ENABLED", 1, 8>>, <<"ENABLED", 3, 8>>, <<"ON_BUSY", 0, 8>> }

\* the members a rank can have, by its position: 2004 (active or not), 2005
\* or the GROUP 4000 without route, 2002, the last extension of the chain
RankMembers(n) ==
    IF n = 1 THEN {<<Member(1, "DEFAULT", TRUE)>>, <<Member(1, "DEFAULT", FALSE)>>}
    ELSE IF n = 2 THEN {<<Member(2, "AUXILIARY", TRUE)>>, <<Member(4, "DEFAULT", TRUE)>>}
    ELSE IF n = 3 THEN {<<Member(10, "DEFAULT", TRUE)>>}
    ELSE {<<Member(21, "DEFAULT", TRUE)>>}

RECURSIVE RankListsOf(_)
RankListsOf(n) ==
    IF n = 0 THEN {<<>>}
    ELSE {Append(rs, Rank(20 + n, n, md[1], md[2], ms)) :
             rs \in RankListsOf(n - 1), md \in RankModes, ms \in RankMembers(n)}

RankStores ==
    {Store(RootRow(type, fw), ranks, {}) :
        type \in {"GROUP", "MULTIRING"}, fw \in RankForwards,
        ranks \in UNION {RankListsOf(n) : n \in 0 .. MaxRankList}}

RanksInit ==
    /\ shutdown = FALSE
    /\ routing_db_engine = "open"
    /\ store \in RankStores
    /\ stage2_db = NoStage2Db
    /\ GenIdle
    /\ busy_impl = "PythonDictBusyCache"
    /\ BusyIdle
    /\ RouteIdle

SpecRanks == RanksInit /\ [][GenNext]_vars

\* the rank has an active member with a route (a GROUP without ranks has none)
Contributes(rank) ==
    \E j \in DOMAIN rank.members :
        rank.members[j].active /\ rank.members[j].extension.row.type # "GROUP"

IsTimed(rank) == rank.mode \in {"DROP", "NEXT"}

\* the rank at which the iteration over the ranks of the node stops, 0 if it
\* goes through them all: the first rank after a leg was emitted at which the
\* forwarding mode is still ENABLED and the delays of the timed separators,
\* its own included, have reached forwarding_delay
RECURSIVE StopRankFrom(_, _, _, _, _)
StopRankFrom(node, i, emitted, accumulated_delay, forwarding_mode) ==
    IF i > Len(node.fork_ranks) THEN 0
    ELSE LET rank == node.fork_ranks[i]
             delay == IF emitted /\ IsTimed(rank) THEN accumulated_delay + rank.delay
                      ELSE accumulated_delay
             mode == IF emitted /\ ~IsTimed(rank) THEN "DISABLED" ELSE forwarding_mode
         IN IF emitted /\ mode = "ENABLED" /\ delay >= node.row.forwarding_delay THEN i
            ELSE StopRankFrom(node, i + 1, emitted \/ Contributes(rank), delay, mode)
StopRank(node) == StopRankFrom(node, 1, FALSE, 0, node.forwarding_mode)

\* the legs the generator makes for the node in front of its forward
LegsBeforeForward(node) ==
    LET Of(legs) == SubSeq(legs, 1, Len(legs) - 2)
    IN Of(Targets(Generation_visit(GenerationContext(1), <<node>>, <<>>, EmptyDict).result))

\* the node with its first n ranks only
FirstRanks(node, n) == [node EXCEPT !.fork_ranks = SubSeq(@, 1, n)]

\* C31: while a Fork is generated for a node with forwarding mode ENABLED, as
\* soon as the accumulated delay of the timed rank separators reaches
\* forwarding_delay the iteration over the ranks stops: the leg list has
\* neither the separator of that rank nor a member of it or of a later rank;
\* the legs in front of the forward are those of the node without these ranks.
C31_RanksStopAtForwardingDelay ==
    \A fork \in RootForks :
        LET node == discovery[1].visitor.node IN
        (node.forwarding_mode = "ENABLED" /\ StopRank(node) > 0) =>
            /\ \A i \in StopRank(node) .. Len(node.fork_ranks) :
               \A j \in DOMAIN node.fork_ranks[i].members :
               \A k \in DOMAIN fork.fork_targets :
                   ~IsLegForNumber(fork.fork_targets[k],
                                   node.fork_ranks[i].members[j].extension.row.extension)
            /\ SubSeq(Targets(fork), 1, Len(fork.fork_targets) - 2)
                  = LegsBeforeForward(FirstRanks(node, StopRank(node) - 1))

\* the iteration stopped at the second of three ranks
C31_Witness ==
    \E fork \in RootForks :
        /\ discovery[1].visitor.node.forwarding_mode = "ENABLED"
        /\ Len(discovery[1].visitor.node.fork_ranks) = 3
        /\ StopRank(discovery[1].visitor.node) = 2
        /\ Len(fork.fork_targets) >= 3

NoCallWait(leg) == Get(leg.parameters, "osip_X-No-Call-Wait") = <<"1">>

\* C32: in the Fork of a node with forwarding mode ON_BUSY every leg in front
\* of the forward separator that is not a separator (the node's own target,
\* the targets of the members) carries osip_X-No-Call-Wait=1, the separators
\* carry no parameters, and the forward target after the separator "|" has
\* not received osip_X-No-Call-Wait.
C32_NoCallWaitBeforeBusyForward ==
    \A fork \in RootForks :
        discovery[1].visitor.node.forwarding_mode = "ON_BUSY" =>
            LET legs == fork.fork_targets
                n == Len(legs)
            IN /\ n >= 2
               /\ legs[n - 1].target = <<"|">>
               /\ ~is_separator(legs[n])
               /\ ~NoCallWait(legs[n])
               /\ \A k \in 1 .. n - 1 :
                      IF is_separator(legs[k])
                      THEN legs[k].parameters = EmptyDict
                      ELSE NoCallWait(legs[k])

\* a MULTIRING node with ON_BUSY forward rings itself and a member of a
\* later rank
C32_Witness ==
    \E fork \in RootForks :
        /\ discovery[1].visitor.node.forwarding_mode = "ON_BUSY"
        /\ discovery[1].visitor.node.row.type = "MULTIRING"
        /\ Len(fork.fork_targets) >= 6
        /\ \E k \in 2 .. Len(fork.fork_targets) - 2 : is_separator(fork.fork_targets[k])

\* a leg was emitted for a rank in front of rank i of the node
EmittedBefore(node, i) == \E j \in 1 .. i - 1 : Contributes(node.fork_ranks[j])

\* the iteration reaches a rank of mode DEFAULT after a leg was emitted
DefaultRankAfterLeg(node) ==
    \E i \in DOMAIN node.fork_ranks :
        /\ ~IsTimed(node.fork_ranks[i])
        /\ EmittedBefore(node, i)
        /\ StopRank(node) = 0

\* the fork ends with a timed separator and the target of the forward to 0901
EndsWithTimedForward(fork) ==
    LET n == Len(fork.fork_targets) IN
    /\ n >= 2
    /\ IsDrop(fork.fork_targets[n - 1])
    /\ IsLegForNumber(fork.fork_targets[n], <<"0", "9", "0", "1">>)

\* C33: a rank of mode DEFAULT disables the time-based forward of a node
\* (mode ENABLED rewritten to DISABLED, no forward target in the Fork) only
\* when a leg was already emitted for an earlier rank, which is when the rank
\* gets a separator; a DEFAULT rank that is the first to contribute legs does
\* not disable the forward. Over the step that generates the Fork of a node
\* discovered with forwarding mode ENABLED: the generator leaves the node with
\* mode DISABLED and the Fork without a forward if the iteration reached a
\* DEFAULT rank after a leg was emitted, and otherwise leaves the node ENABLED
\* and the Fork with the timed forward.
C33_DefaultRankDisablesForward ==
    [][\A fork \in RootForks' :
           LET node == discovery[1].visitor.node
               left == discovery'[1].visitor.node
           IN (generation = <<>> /\ node.forwarding_mode = "ENABLED") =>
                  /\ left.forwarding_mode
                        = IF DefaultRankAfterLeg(node) THEN "DISABLED" ELSE "ENABLED"
                  /\ EndsWithTimedForward(fork) <=> ~DefaultRankAfterLeg(node)
                  /\ DefaultRankAfterLeg(node) =>
                         \A k \in DOMAIN fork.fork_targets :
                             ~IsLegForNumber(fork.fork_targets[k], <<"0", "9", "0", "1">>)]_vars

\* a DEFAULT rank after an emitted leg: discovery pruned nothing and left the
\* stored mode ENABLED, the generator has written DISABLED and the Fork has
\* no forward
C33_Witness ==
    \E fork \in RootForks :
        LET node == discovery[1].visitor.node IN
        /\ node.row.forwarding_mode = "ENABLED"
        /\ ~discovery[1].visitor.pruned
        /\ node.forwarding_mode = "DISABLED"
        /\ \E i \in DOMAIN node.fork_ranks :
               ~IsTimed(node.fork_ranks[i]) /\ EmittedBefore(node, i)
        /\ ~EndsWithTimedForward(fork)

\* the second rank is a DEFAULT rank and the first to contribute a leg: the
\* node is still ENABLED and the forward stays
C33_WitnessKept ==
    \E fork \in RootForks :
        LET node == discovery[1].visitor.node IN
        /\ node.forwarding_mode = "ENABLED"
        /\ Len(node.fork_ranks) >= 2
        /\ ~Contributes(node.fork_ranks[1])
        /\ ~IsTimed(node.fork_ranks[2]) /\ Contributes(node.fork_ranks[2])
        /\ EndsWithTimedForward(fork)

\* C37: the delay d of the separator |drop=<d> in front of the target of a
\* time-based forward is greater than 0, whatever forwarding_delay and the
\* delays of the ranks are.
C37_ForwardDropDelayPositive ==
    \A fork \in RootForks :
        EndsWithTimedForward(fork) =>
            DropDelay(fork.fork_targets[Len(fork.fork_targets) - 1]) > 0

\* the envelopes of a routing request: of its result and of every sub-plan
\* it wrote to the routing cache
Envelopes(i) ==
    {route_tasks[i].routing_result.target}
    \cup {route_tasks[i].routing_cache_entries[name].target :
             name \in DOMAIN route_tasks[i].routing_cache_entries}

\* the names of the extension the request of the task calls: the extension
\* with this number or else the trunk whose number the called number starts with
CalledNames(i) ==
    LET called == Get(route_tasks[i].request, Key("called"))
        exact == {row \in store.extensions : row.extension = called}
    IN {row.name : row \in IF exact # {} THEN exact
                           ELSE {r \in store.extensions :
                                    r.type = "TRUNK" /\ StartsWith(called, r.extension)}}

\* the value is the caller parameter, for callername possibly behind the
\* short name of a called group
IsCallerParameter(key, value, parameter) ==
    \/ value = parameter
    \/ /\ key = "callername"
       /\ Len(value) >= Len(parameter)
       /\ SubSeq(value, Len(value) - Len(parameter) + 1, Len(value)) = parameter

\* the parameters carry the caller parameters of the task and the name of the
\* called extension; parameter names are made with Name
CarriesCallerParameters(i, parameters) ==
    /\ \A key \in DOMAIN route_tasks[i].caller_params :
           /\ key \in DOMAIN parameters
           /\ IsCallerParameter(key, parameters[key], route_tasks[i].caller_params[key])
    /\ \A name \in CalledNames(i) : name # None => Get(parameters, "calledname") = name

\* C34: after the Stage-1 generation every source parameter of the caller and
\* the calledname of the target are in the envelope of the result, in the
\* reply, and in the envelope of every sub-plan written to the routing cache
\* for the request; a later re-entry on a deferred route of the request is
\* answered with the same caller parameters as the Stage-1 reply.
C34_CallerParametersOnEveryEnvelope ==
    /\ \A i \in RoutedTasks :
           /\ \A envelope \in Envelopes(i) : CarriesCallerParameters(i, envelope.parameters)
           /\ CalledNames(i) # {}
    /\ \A p \in Stage1Answers :
           (route_answers[p].task \in RoutedTasks /\ route_answers[p].handled) =>
               \A key \in DOMAIN route_tasks[route_answers[p].task].caller_params :
                   /\ Key(key) \in DOMAIN route_answers[p].message.params
                   /\ IsCallerParameter(key, route_answers[p].message.params[Key(key)],
                                        route_tasks[route_answers[p].task].caller_params[key])
    /\ \A x \in ReEntries :
           \A key \in DOMAIN route_tasks[route_answers[x[1][1]].task].caller_params
                        \cup {"calledname"} :
               Get(route_answers[x[1][2]].message.params, Key(key))
                   = Get(route_answers[x[1][1]].message.params, Key(key))

\* a caller with a language and an outgoing number reached a Fork with a
\* cached sub-plan, and a re-entry on it was answered
C34_Witness ==
    \E x \in ReEntries :
        LET i == route_answers[x[1][1]].task IN
        /\ DOMAIN route_tasks[i].routing_cache_entries # {}
        /\ {"osip_X-Caller-Language", "caller", "callername"}
              \subseteq DOMAIN route_tasks[i].caller_params
        /\ Get(route_answers[x[1][2]].message.params, Key("osip_X-Caller-Language"))
              = <<"en_GB">>

\* C35: every message handed to a Stage-1, Stage-2 or cache-retrieval task is
\* answered exactly once in every execution: never twice, and once when the
\* task has ended, also when the message lacks a parameter, when the database
\* job is retried, and when all attempts fail.
C35_AnsweredExactlyOnce ==
    \A i \in DOMAIN route_tasks :
        /\ Cardinality(AnswersOf(i)) <= 1
        /\ route_tasks[i].pc \in {"done", "stopped"} => Cardinality(AnswersOf(i)) = 1

ForwardingTarget(node) == Range(node.forwarding_extension)

ActiveMembers(node) ==
    UNION {{node.fork_ranks[i].members[j].extension :
               j \in {k \in DOMAIN node.fork_ranks[i].members :
                         node.fork_ranks[i].members[k].active}} :
              i \in DOMAIN node.fork_ranks}

\* the generator follows the forward of the node: at once, or after the legs
\* of the node
FollowsForward(node) ==
    \/ immediate_forward(node)
    \/ /\ ~node_has_simple_routing(node)
       /\ node.forwarding_mode \in {"ENABLED", "ON_BUSY", "ON_UNAVAILABLE"}

\* the nodes of the discovered graph that the generator can come to from node
RECURSIVE GeneratorNodes(_)
GeneratorNodes(node) ==
    {node} \cup
    UNION {GeneratorNodes(next) :
              next \in IF immediate_forward(node) THEN ForwardingTarget(node)
                       ELSE IF node_has_simple_routing(node) THEN {}
                       ELSE ActiveMembers(node)
                            \cup IF FollowsForward(node) THEN ForwardingTarget(node) ELSE {}}

\* the generator ended in the visit of a forwarding target that is absent
AbsentForwardVisited ==
    /\ generation[1].raise = AttributeError
    /\ \E node \in GeneratorNodes(discovery[1].visitor.node) :
           FollowsForward(node) /\ node.forwarding_extension = <<>>

\* C36: whenever the generator follows the forward of a node (an immediate
\* forward, or forwarding mode ENABLED, ON_BUSY or ON_UNAVAILABLE), the
\* discovery has loaded the forwarding target of that node; for every store,
\* nodes left unexpanded at the depth limit and EXTERNAL extensions with a
\* forwarding mode included, the generator never visits an absent target.
C36_FollowedForwardWasLoaded ==
    generation # <<>> => ~AbsentForwardVisited

\* C38: deferred-route names are unique per fork node: within one routing
\* request two fork nodes of the tree, the same extension reached twice from
\* one parent included, never get the same name, so that no two legs of a
\* Fork carry the same deferred-route name and no sub-plan in the routing
\* cache is overwritten by the plan of another node.
C38_DeferredNamesUnique ==
    \A fork \in EmittedForks :
        \A k, l \in DOMAIN fork.fork_targets :
            (k # l /\ IsDeferredRoute(fork.fork_targets[k].target))
                => fork.fork_targets[k].target # fork.fork_targets[l].target

\* the extension numbers of the store
StoreNumbers == {row.extension : row \in store.extensions}

\* the numbers of the nodes on the way to a call of _visit, the called one
\* included; the first entry of its path is the caller's number
WayOf(call) == Append(SubSeq(call.path, 2, Len(call.path)), call.extension)

\* C39: discovery terminates for every store and every root, with forward
\* cycles, membership cycles and self-references: the visit returns with the
\* root, and the visited nodes are bounded: every call of _visit is at a depth
\* of at most max_depth, below the number of extensions of the store, on a
\* way of extensions of the store on which none occurs twice.
C39_DiscoveryTerminates ==
    discovery # <<>> =>
           /\ discovery[1].visitor.node.row.extension = discovery[1].target_extension
           /\ \E c \in DiscoveryCalls : c.depth = 0
           /\ \A c \in DiscoveryCalls :
                  /\ c.depth <= max_depth
                  /\ c.depth < Cardinality(StoreNumbers)
                  /\ Len(WayOf(c)) = c.depth + 1
                  /\ Range(WayOf(c)) \subseteq StoreNumbers
                  /\ NoRepeat(WayOf(c))

\* a discovery returned from a graph in which a member of 2000 forwards back
\* to 2000
C39_Witness ==
    /\ discovery # <<>>
    /\ discovery[1].visitor.pruned
    /\ \E c \in DiscoveryCalls : c.extension = N2042 /\ c.depth > 0
    /\ Cardinality(DiscoveryCalls) >= 2

\* a discovery returned from 2000 forwarding to itself
C39_WitnessSelf ==
    /\ discovery # <<>>
    /\ discovery[1].visitor.pruned
    /\ discovery[1].visitor.node.row.forwarding_extension_id = discovery[1].visitor.node.row.id
    /\ discovery[1].visitor.node.forwarding_mode = "DISABLED"

\* no initialize event was applied to the busy cache
NoInitializeApplied == \A e \in DOMAIN cdr_log : cdr_log[e].inits = 0

\* this step is a call of is_busy, or the run of a finalize for an extension
\* that no initialize was applied for
QueryOrIdleFinalize ==
    \/ cdr_tasks' = cdr_tasks /\ cdr_count' = cdr_count
    \/ \E i \in DOMAIN cdr_tasks :
           /\ TaskRan(i)
           /\ UpdatesCounter(cdr_tasks[i])
           /\ cdr_tasks[i]["operation"] = S_finalize
           /\ LogOf(cdr_log, cdr_tasks[i]["external"]).inits = 0

\* C40: is_busy is a pure query of the in-memory busy cache: a call of it for
\* any extension, and a finalize for an extension that was never initialized,
\* leave the map of busy_status() as it is, and busy_status() of an engine
\* that processed no initialize event is empty.
C40_IsBusyPureQuery ==
    /\ []((busy_impl = "PythonDictBusyCache" /\ NoInitializeApplied)
             => busy_status(busy_impl, busy_cache) = EmptyDict)
    /\ [][(busy_impl = "PythonDictBusyCache" /\ QueryOrIdleFinalize)
             => busy_status(busy_impl, busy_cache') = busy_status(busy_impl, busy_cache)]_vars

====
